---- MODULE Spec2Model ----
(***************************************************************************)
(* Model of woke/development/pytypes_generator.py: the unit scheduler of   *)
(* TypeGenerator.generate_types, the contract emission guard, the          *)
(* NameSanitizer and the opcode / source-map decoder.                      *)
(*                                                                         *)
(* Unit names are the integers 1..n; their order is the lexicographic      *)
(* order of the names.  Paths (fs_path) are integers as well.  An edge     *)
(* <<u, v>> of the import graph means that v imports u (line 1431:         *)
(* "source units with no imports are generated first" are the nodes of     *)
(* in-degree zero).                                                        *)
(***************************************************************************)
EXTENDS Integers, Sequences, FiniteSets, TLC

\* ---------------------------------------------------------------- bounds
NumUnits == 3
MaxEdges == 4
MaxCalls == 3
MaxTokens == 4
MaxEntries == 2
MaxQueue == 4
MaxDepth == 2
MaxMembers == 3
MaxNameLen == 2
MaxParams == 2
MaxContracts == 3

VARIABLES
    \* inputs of generate_types
    latest_graph,      \* compiler.latest_graph: [nodes, edges]
    fs_path,           \* build_info.source_units_info[name].fs_path
    source_units,      \* keys of build.source_units (paths that have a SourceUnit)
    \* locals of generate_types
    pc,                \* position in generate_types
    graph,             \* the residual graph (the copy of latest_graph)
    sources,           \* the heap of the inner loop, as name -> multiplicity
    previous_len,
    cycles_detected,
    cycles,
    generated_cycles,  \* closed cycles of this iteration not yet flushed
    flush_members,     \* members of the cycle being flushed, not yet iterated
    iteration,         \* number of the current outer iteration
    pops,              \* number of heappop calls so far
    \* fields of TypeGenerator and what a run leaves behind
    emitted,           \* calls of generate_source_unit, in order
    already_generated_contracts,
    contracts_inheritance_index,
    contracts_index,   \* insertion order of __contracts_index (manifest)
    skipped_contracts, \* fqns for which generate_types_contract returned at 1231
    warnings,          \* logger.warning calls: each the set of cycles it lists
    first_run,         \* what an earlier run on the same input produced
    type_dir,          \* the files under __pytypes_dir, each with the run that wrote it
    cleans,            \* calls of clean_type_dir in this run
    \* fields of NameSanitizer
    global_renames,
    contract_renames,
    function_renames,
    struct_renames,
    event_renames,
    error_renames,
    enum_renames,
    returned,          \* declaration -> the identifiers sanitize_name returned for it
    calls,             \* number of sanitize_name calls so far
    \* the decoder: _parse_opcodes and _parse_source_map
    opcodes_spl,       \* opcodes.split(" ")
    source_map,        \* source_map.split(";"), each item split at ":"
    dec_pc,            \* position in the decoder
    op_i,              \* the index of the loop of _parse_opcodes (from 1)
    op_pc,             \* pc of _parse_opcodes
    ignore,
    pc_op_map,
    sm_i,              \* the index of the loop of _parse_source_map (from 1)
    last_data,
    pc_map,
    \* the REVERT index of generate_contract_template
    rv_i,              \* the index of the loop over parsed_opcodes (from 1)
    contracts_revert_index,  \* __contracts_revert_index[fqn] of the contract decoded
    interval_tree,     \* __interval_trees[path]: the AST nodes of the file
    file_resolves,     \* whether resolve_source_file_id finds the file
    revert_nodes,      \* what was looked up for each REVERT that has a source
    \* the library search and the deploy function of generate_contract_template
    lib_pc,
    contract_unit,     \* contract.parent
    library_units,     \* the units that declare a library
    lib_ids,
    libraries,
    source_units_queue,
    contract_kind,
    contract_abstract,
    deploy_body,
    \* the type mapper and the getter of a public state variable
    type_pc,
    type_expr,         \* the type of the parameter or of the state variable
    return_types,
    parsed_type,
    returns_str,
    generated_params,
    param_names,
    \* the emission of one source unit after the other (generate_source_unit)
    em_pc,
    current_source_unit,
    source_unit_types,  \* __source_unit_types, each piece with the unit that added it
    source_unit_imports,            \* the SourceUnitImports object
    written_units,      \* what write_source_unit_to_file was given, in order
    \* the files of the source units (write_source_unit_to_file)
    unit_names,         \* the names of the source units of the build
    unit_files,         \* the files under __pytypes_dir, each with the units written to it
    \* the record of an event or of an error (generate_types_event, generate_types_error)
    record_pc,
    record_kind,        \* "event" or "error"
    record_params,      \* event.parameters.parameters: name, type and indexed
    unnamed_params_index,
    parameters,         \* the local list `parameters`
    record_fields,      \* the fields of the dataclass emitted
    fn_pc,              \* position in generate_types_function or the getter
    fn_decl,            \* the function or the public state variable
    fn_params,          \* the parameters generated for it
    fn_returns,         \* the return types generated for it
    overloads,          \* the @overload stubs emitted, in order
    implementation,     \* the implementation emitted (none, or one)
    ov_pc,              \* position in traverse_funcs_to_check_overload
    ov_contracts,       \* the contracts: kind, base_contracts, functions
    ov_i,               \* the function the loops are at
    func_to_overload,   \* __func_to_overload
    ov_checked,         \* the calls of add_func_overload_if_match made
    ov_matches          \* the pairs of functions it found to match

schedVars == <<latest_graph, fs_path, source_units, pc, graph, sources, previous_len,
               cycles_detected, cycles, generated_cycles, flush_members, iteration,
               pops, emitted, already_generated_contracts, contracts_inheritance_index,
               contracts_index, skipped_contracts, warnings, first_run, type_dir,
               cleans>>

scopedRenames == <<contract_renames, function_renames, struct_renames, event_renames,
                   error_renames, enum_renames>>

sanVars == <<global_renames, scopedRenames, returned, calls>>

decVars == <<opcodes_spl, source_map, dec_pc, op_i, op_pc, ignore, pc_op_map, sm_i,
             last_data, pc_map>>

revVars == <<rv_i, contracts_revert_index, interval_tree, file_resolves, revert_nodes>>

libVars == <<lib_pc, contract_unit, library_units, lib_ids, libraries, source_units_queue,
             contract_kind, contract_abstract, deploy_body>>

typeVars == <<type_pc, type_expr, return_types, parsed_type, returns_str, generated_params,
              param_names>>

unitVars == <<em_pc, current_source_unit, source_unit_types, source_unit_imports,
              written_units>>

\* the variables of the emission of the declarations of a source unit
pathVars == <<unit_names, unit_files>>

recordVars == <<record_pc, record_kind, record_params, unnamed_params_index, parameters,
                record_fields>>

overloadVars == <<ov_pc, ov_contracts, ov_i, func_to_overload, ov_checked, ov_matches>>

functionVars == <<fn_pc, fn_decl, fn_params, fn_returns, overloads, implementation,
                  overloadVars>>

emissionVars == <<unitVars, pathVars, recordVars, functionVars>>

\* the variables of generate_contract_template, of the type mapper and of the
\* emission
templateVars == <<revVars, libVars, typeVars, emissionVars>>

vars == <<schedVars, sanVars, decVars, templateVars>>

\* ------------------------------------------------------------ graph helpers
Units == 1..NumUnits

in_edges(g, node) == {e \in g.edges : e[2] = node}

out_edges(g, node) == IF node \in g.nodes THEN {e \in g.edges : e[1] = node} ELSE {}

in_degree(g, node) == Cardinality(in_edges(g, node))

remove_nodes_from(g, ns) ==
    [nodes |-> g.nodes \ ns,
     edges |-> {e \in g.edges : e[1] \notin ns /\ e[2] \notin ns}]

\* paths_to_source_unit_names[path] (lines 1435-1437)
paths_to_source_unit_names(path) == {u \in latest_graph.nodes : fs_path[u] = path}

\* frozenset(cycle) for the cycles nx.simple_cycles(g) yields: the node sets that
\* can be arranged into a directed cycle (a self-loop is a cycle of one node)
RECURSIVE ClosesCycle(_, _, _, _)
ClosesCycle(g, first, node, rest) ==
    IF rest = {} THEN <<node, first>> \in g.edges
    ELSE \E nxt \in rest :
            <<node, nxt>> \in g.edges /\ ClosesCycle(g, first, nxt, rest \ {nxt})

IsCycleSet(g, S) ==
    LET first == CHOOSE u \in S : \A v \in S : u <= v
    IN  ClosesCycle(g, first, first, S \ {first})

simple_cycles(g) == {S \in (SUBSET g.nodes) \ {{}} : IsCycleSet(g, S)}

\* a closedness test that lets no edge at all enter a member
is_closed_cycle_no_in_edges(g, cycle) ==
    \A node \in cycle : in_edges(g, node) = {}

\* lines 1473-1477
is_closed_cycle(g, cycle) ==
    \A node \in cycle : \A edge \in in_edges(g, node) : edge[1] \in cycle

\* ------------------------------------------------------------ NameSanitizer
\* keyword.iskeyword (line 1753)
keywords ==
    {"False", "None", "True", "and", "as", "assert", "async", "await", "break", "class",
     "continue", "def", "del", "elif", "else", "except", "finally", "for", "from",
     "global", "if", "import", "in", "is", "lambda", "nonlocal", "not", "or", "pass",
     "raise", "return", "try", "while", "with", "yield"}

\* lines 1648-1689
global_reserved ==
    {"Dict", "List", "Mapping", "Set", "Tuple", "Union", "Annotated", "Optional",
     "Literal", "Callable", "Path", "bytearray", "IntEnum", "dataclasses", "overload",
     "Contract", "Library", "Address", "Account", "Chain", "RequestType",
     "TransactionRevertedError", "TransactionAbc", "LegacyTransaction",
     "Eip2930Transaction", "Eip1559Transaction", "ValueRange", "Length", "bytes", "int",
     "uint", "str", "bool"}
    \cup {"uint" \o ToString(8 * i) : i \in 1..32}
    \cup {"int" \o ToString(8 * i) : i \in 1..32}
    \cup {"bytes" \o ToString(i) : i \in 1..32}
    \cup {"List" \o ToString(i) : i \in 1..32}

\* lines 1695-1718
contract_reserved ==
    {"_abi", "_deployment_code", "_address", "_chain", "_label", "_get_deployment_code",
     "_deploy", "_execute", "_library_id", "_prepare_tx_params", "address", "label",
     "balance", "code", "chain", "nonce", "call", "transact", "estimate", "deploy",
     "deployment_code"}

\* lines 1719-1735
function_reserved ==
    {"self", "cls", "from_", "value", "gas_limit", "return_tx", "chain", "to",
     "request_type", "gas_price", "max_fee_per_gas", "max_priority_fee_per_gas",
     "access_list", "block", "confirmations"}

struct_reserved == {"original_name"}

event_reserved == {"_abi", "selector", "original_name"}

error_reserved == {"_abi", "selector", "original_name"}

enum_reserved == {}

\* the declarations of the build: the original name, the kind of the scope (of
\* the structural parent), the parent, and a number that tells apart the
\* declarations of one name in one scope (the overloads of a contract; in the
\* global scope the same-named declarations belong to two source units)
DeclNames == {"list", "List", "from", "from_", "__init__"}

ScopeKinds == {"global", "contract", "function", "struct", "event", "error", "enum"}

ParentsOf(kind) == IF kind = "global" THEN {"unit1", "unit2"} ELSE {kind \o "1"}

Decls ==
    UNION {{[name |-> n, kind |-> k, parent |-> p, nr |-> i] :
                n \in DeclNames, p \in ParentsOf(k),
                i \in (IF k = "contract" THEN {1, 2} ELSE {1})} : k \in ScopeKinds}

Values(renames) == {renames[d] : d \in DOMAIN renames}

\* a DeclarationAbc (a key of __global_renames) is never equal to a str
DeclEqualsStr(d, name) == FALSE

\* `name in set(self.__global_renames)`: the set holds the keys of the dict
in_global_renames_keys(name) == \E d \in DOMAIN global_renames : DeclEqualsStr(d, name)

startswith(name, prefix) ==
    Len(name) >= Len(prefix) /\ SubSeq(name, 1, Len(prefix)) = prefix

endswith(name, suffix) ==
    Len(name) >= Len(suffix)
    /\ SubSeq(name, Len(name) - Len(suffix) + 1, Len(name)) = suffix

\* lines 1763-1767
IsDunder(name) ==
    startswith(name, "__") /\ endswith(name, "__") /\ ~endswith(name, "___")

\* _check_global without the test against the names already chosen
check_global_ignoring_renames(name) ==
    name \in global_reserved \/ name \in keywords

\* lines 1749-1754
check_global(name) ==
    \/ name \in global_reserved
    \/ name \in Values(global_renames)
    \/ name \in keywords

\* _check_contract without the test against the reserved global identifiers
check_contract_without_global_reserved(name, contract) ==
    \/ in_global_renames_keys(name)
    \/ name \in contract_reserved
    \/ name \in Values(contract_renames[contract])
    \/ name \in keywords
    \/ IsDunder(name)

\* lines 1756-1768
check_contract(name, contract) ==
    \/ name \in global_reserved
    \/ in_global_renames_keys(name)
    \/ name \in contract_reserved
    \/ name \in Values(contract_renames[contract])
    \/ name \in keywords
    \/ IsDunder(name)

\* lines 1770-1777
check_function(name, function) ==
    \/ name \in global_reserved
    \/ in_global_renames_keys(name)
    \/ name \in function_reserved
    \/ name \in Values(function_renames[function])
    \/ name \in keywords

\* lines 1779-1791
check_struct(name, struct) ==
    \/ name \in global_reserved
    \/ in_global_renames_keys(name)
    \/ name \in struct_reserved
    \/ name \in Values(struct_renames[struct])
    \/ name \in keywords
    \/ IsDunder(name)

\* lines 1793-1805
check_event(name, event) ==
    \/ name \in global_reserved
    \/ in_global_renames_keys(name)
    \/ name \in event_reserved
    \/ name \in Values(event_renames[event])
    \/ name \in keywords
    \/ IsDunder(name)

\* lines 1807-1819
check_error(name, error) ==
    \/ name \in global_reserved
    \/ in_global_renames_keys(name)
    \/ name \in error_reserved
    \/ name \in Values(error_renames[error])
    \/ name \in keywords
    \/ IsDunder(name)

\* lines 1821-1833
check_enum(name, enum) ==
    \/ name \in global_reserved
    \/ in_global_renames_keys(name)
    \/ name \in enum_reserved
    \/ name \in Values(enum_renames[enum])
    \/ name \in keywords
    \/ IsDunder(name)

\* lines 1839-1862: the check and the rename table of the declaration's scope
check(d, name) ==
    CASE d.kind = "global" -> check_global(name)
      [] d.kind = "contract" -> check_contract(name, d.parent)
      [] d.kind = "struct" -> check_struct(name, d.parent)
      [] d.kind = "enum" -> check_enum(name, d.parent)
      [] d.kind = "function" -> check_function(name, d.parent)
      [] d.kind = "event" -> check_event(name, d.parent)
      [] d.kind = "error" -> check_error(name, d.parent)

renames_of(d) ==
    CASE d.kind = "global" -> global_renames
      [] d.kind = "contract" -> contract_renames[d.parent]
      [] d.kind = "struct" -> struct_renames[d.parent]
      [] d.kind = "enum" -> enum_renames[d.parent]
      [] d.kind = "function" -> function_renames[d.parent]
      [] d.kind = "event" -> event_renames[d.parent]
      [] d.kind = "error" -> error_renames[d.parent]

\* a test made once instead of the loop
new_name_once(d, name) == IF check(d, name) THEN name \o "_" ELSE name

RECURSIVE new_name(_, _)
\* lines 1875-1877
new_name(d, name) == IF check(d, name) THEN new_name(d, name \o "_") ELSE name

\* what sanitize_name returns for d (lines 1872-1880)
sanitized(d) ==
    IF d \in DOMAIN renames_of(d) THEN renames_of(d)[d] ELSE new_name(d, d.name)

\* renames[declaration] = new_name, in the table `table` of scope kind `kind`
Stored(table, kind, d, name) ==
    IF d.kind = kind /\ d \notin DOMAIN table[d.parent]
    THEN [table EXCEPT ![d.parent] = @ @@ (d :> name)]
    ELSE table

\* lines 1838-1880
SanitizeName(d) ==
    LET name == sanitized(d) IN
    /\ calls < MaxCalls
    /\ calls' = calls + 1
    /\ returned' = [returned EXCEPT ![d] = @ \cup {name}]
    /\ global_renames' = IF d.kind = "global" /\ d \notin DOMAIN global_renames
                         THEN global_renames @@ (d :> name)
                         ELSE global_renames
    /\ contract_renames' = Stored(contract_renames, "contract", d, name)
    /\ function_renames' = Stored(function_renames, "function", d, name)
    /\ struct_renames' = Stored(struct_renames, "struct", d, name)
    /\ event_renames' = Stored(event_renames, "event", d, name)
    /\ error_renames' = Stored(error_renames, "error", d, name)
    /\ enum_renames' = Stored(enum_renames, "enum", d, name)
    /\ UNCHANGED <<schedVars, decVars, templateVars>>

\* lines 1835-1836, called when a source unit has been written (line 1419)
ClearGlobalRenames ==
    /\ global_renames # <<>>
    /\ global_renames' = <<>>
    /\ UNCHANGED <<scopedRenames, returned, calls, schedVars, decVars, templateVars>>

\* NameSanitizer.__init__, lines 1741-1747
SanitizerConstructed ==
    /\ global_renames = <<>>
    /\ contract_renames = [p \in ParentsOf("contract") |-> <<>>]
    /\ function_renames = [p \in ParentsOf("function") |-> <<>>]
    /\ struct_renames = [p \in ParentsOf("struct") |-> <<>>]
    /\ event_renames = [p \in ParentsOf("event") |-> <<>>]
    /\ error_renames = [p \in ParentsOf("error") |-> <<>>]
    /\ enum_renames = [p \in ParentsOf("enum") |-> <<>>]
    /\ returned = [d \in Decls |-> {}]
    /\ calls = 0

\* ------------------------------------------------------------- the decoder
None == "None"

DecDigits == "0123456789"

HexLower == "0123456789abcdef"

HexUpper == "0123456789ABCDEF"

IsDigitOf(c, digits) == \E k \in 1..Len(digits) : SubSeq(digits, k, k) = c

DigitOf(c, digits) == (CHOOSE k \in 1..Len(digits) : SubSeq(digits, k, k) = c) - 1

AllDigits(s, digits) ==
    Len(s) > 0 /\ \A k \in 1..Len(s) : IsDigitOf(SubSeq(s, k, k), digits)

RECURSIVE DigitsValue(_, _, _)
DigitsValue(s, digits, base) ==
    IF Len(s) = 0 THEN 0
    ELSE DigitsValue(SubSeq(s, 1, Len(s) - 1), digits, base) * base
         + DigitOf(SubSeq(s, Len(s), Len(s)), digits)

IsSigned(s) == Len(s) > 0 /\ SubSeq(s, 1, 1) = "-"

Unsigned(s) == IF IsSigned(s) THEN SubSeq(s, 2, Len(s)) ELSE s

\* int(s) succeeds
can_int(s) == AllDigits(Unsigned(s), DecDigits)

\* int(s)
int(s) ==
    IF IsSigned(s) THEN 0 - DigitsValue(Unsigned(s), DecDigits, 10)
    ELSE DigitsValue(s, DecDigits, 10)

HexBody(s) == IF startswith(s, "0x") THEN SubSeq(s, 3, Len(s)) ELSE s

IsHexDigit(c) == IsDigitOf(c, HexLower) \/ IsDigitOf(c, HexUpper)

HexDigit(c) == IF IsDigitOf(c, HexLower) THEN DigitOf(c, HexLower) ELSE DigitOf(c, HexUpper)

\* int(s, 16) succeeds
can_int16(s) ==
    Len(HexBody(s)) > 0 /\ \A k \in 1..Len(HexBody(s)) : IsHexDigit(SubSeq(HexBody(s), k, k))

RECURSIVE HexValue(_)
HexValue(s) ==
    IF Len(s) = 0 THEN 0
    ELSE HexValue(SubSeq(s, 1, Len(s) - 1)) * 16 + HexDigit(SubSeq(s, Len(s), Len(s)))

\* int(s, 16)
int16(s) == HexValue(HexBody(s))

\* opcode[4:]
push_digits(opcode) == SubSeq(opcode, 5, Len(opcode))

\* a PUSH whose size leaves out the byte of the opcode itself
push_size_of_operand(opcode) == int(push_digits(opcode))

\* line 87
push_size(opcode) == int(push_digits(opcode)) + 1

\* lines 78-90: one pass of the loop of _parse_opcodes
ParseOpcodesStep ==
    /\ dec_pc = "opcodes"
    /\ op_i <= Len(opcodes_spl)
    /\ LET opcode == opcodes_spl[op_i] IN
       IF ignore
       THEN /\ ignore' = FALSE
            /\ UNCHANGED <<op_pc, pc_op_map, dec_pc>>
       ELSE IF ~startswith(opcode, "PUSH")
       THEN /\ pc_op_map' = Append(pc_op_map, [pc |-> op_pc, op |-> opcode, size |-> 1,
                                               argument |-> None])
            /\ op_pc' = op_pc + 1
            /\ UNCHANGED <<ignore, dec_pc>>
       ELSE IF /\ can_int(push_digits(opcode))
               /\ op_i + 1 <= Len(opcodes_spl)
               /\ can_int16(opcodes_spl[op_i + 1])
       THEN /\ pc_op_map' = Append(pc_op_map,
                                   [pc |-> op_pc, op |-> opcode, size |-> push_size(opcode),
                                    argument |-> int16(opcodes_spl[op_i + 1])])
            /\ op_pc' = op_pc + push_size(opcode)
            /\ ignore' = TRUE
            /\ UNCHANGED dec_pc
       \* ValueError of int(), IndexError of opcodes_spl[i + 1]
       ELSE /\ dec_pc' = "error"
            /\ UNCHANGED <<op_pc, pc_op_map, ignore>>
    /\ op_i' = op_i + 1
    /\ UNCHANGED <<opcodes_spl, source_map, sm_i, last_data, pc_map>>
    /\ UNCHANGED <<schedVars, sanVars, templateVars>>

\* line 91, and the call of _parse_source_map at lines 387-389
ParseOpcodesReturn ==
    /\ dec_pc = "opcodes"
    /\ op_i > Len(opcodes_spl)
    /\ dec_pc' = "source_map"
    /\ sm_i' = 1
    /\ last_data' = <<-1, -1, -1, None, None>>
    /\ pc_map' = <<>>
    /\ UNCHANGED <<opcodes_spl, source_map, op_i, op_pc, ignore, pc_op_map>>
    /\ UNCHANGED <<schedVars, sanVars, templateVars>>

RECURSIVE overwrite(_, _, _)
\* lines 104-110: the fields x, x+1, ... of source_spl written over data
overwrite(data, source_spl, x) ==
    IF x > Len(source_spl) THEN data
    ELSE IF source_spl[x] = "" THEN overwrite(data, source_spl, x + 1)
    ELSE overwrite([data EXCEPT ![x] = IF x <= 3 THEN int(source_spl[x]) ELSE source_spl[x]],
                   source_spl, x + 1)

\* the fields of source_spl that lines 107-110 cannot take
Unparsable(source_spl) ==
    \/ Len(source_spl) > 5
    \/ \E x \in 1..Len(source_spl) :
          x <= 3 /\ source_spl[x] # "" /\ ~can_int(source_spl[x])

\* a decoder that keeps of every item only its own fields
fresh_data(data) == <<-1, -1, -1, None, None>>

\* line 99 and the loop-carried last_data: what an item starts from
carried_data(data) == data

\* lines 101-117: one pass of the loop of _parse_source_map
ParseSourceMapStep ==
    /\ dec_pc = "source_map"
    /\ sm_i <= Len(source_map)
    /\ IF sm_i > Len(pc_op_map) \/ Unparsable(source_map[sm_i])
       \* IndexError of pc_op_map[i], ValueError of int()
       THEN /\ dec_pc' = "error"
            /\ UNCHANGED <<last_data, pc_map>>
       ELSE LET data == overwrite(carried_data(last_data), source_map[sm_i], 1) IN
            /\ last_data' = data
            /\ pc_map' = (pc_op_map[sm_i].pc :>
                            <<data[1], data[1] + data[2], data[3], data[4]>>) @@ pc_map
            /\ UNCHANGED dec_pc
    /\ sm_i' = sm_i + 1
    /\ UNCHANGED <<opcodes_spl, source_map, op_i, op_pc, ignore, pc_op_map>>
    /\ UNCHANGED <<schedVars, sanVars, templateVars>>

\* line 119
ParseSourceMapReturn ==
    /\ dec_pc = "source_map"
    /\ sm_i > Len(source_map)
    /\ dec_pc' = "done"
    /\ UNCHANGED <<opcodes_spl, source_map, op_i, op_pc, ignore, pc_op_map, sm_i,
                   last_data, pc_map>>
    /\ UNCHANGED <<schedVars, sanVars, templateVars>>

\* the locals of _parse_opcodes at line 78
DecoderLocals ==
    /\ op_i = 1
    /\ op_pc = 0
    /\ ignore = FALSE
    /\ pc_op_map = <<>>
    /\ sm_i = 1
    /\ last_data = <<-1, -1, -1, None, None>>
    /\ pc_map = <<>>

\* no contract is being decoded
DecoderIdle ==
    /\ opcodes_spl = <<>>
    /\ source_map = <<>>
    /\ dec_pc = "idle"
    /\ DecoderLocals

\* a REVERT without source: the file_id of its record is -1
NoSource_never(file_id) == FALSE

\* line 394
NoSource(file_id) == file_id = -1

\* what lines 395-411 find for a REVERT with a source: resolve_source_file_id
\* raises KeyError, no node envelops the interval, the shallowest node is no
\* call of a revert statement, it is one and calls an error, or it is one and
\* calls something else
NodeLookups == {"KeyError", "no_node", "other_node", "revert_error", "revert_other"}

\* IntervalTree.envelop(start, end): the nodes whose range lies in [start, end)
envelop(tree, start, end) == {n \in tree : start <= n.start /\ n.end <= end}

\* the node of the largest depth
deepest_nodes(nodes) ==
    {n \in nodes : \A m \in nodes : n.ast_tree_depth >= m.ast_tree_depth}

\* lines 403-409: nodes[0] of the nodes sorted by ast_tree_depth; envelop returns a
\* set, so nodes of one depth come in the iteration order of the set
first_nodes(nodes) ==
    {n \in nodes : \A m \in nodes : n.ast_tree_depth <= m.ast_tree_depth}

NoNode ==
    [kind |-> None, parent |-> None, function_called |-> None, start |-> 0, end |-> 0,
     ast_tree_depth |-> 0]

\* lines 409-413, for the node taken
Found(node) ==
    IF node.kind = "FunctionCall" /\ node.parent = "RevertStatement"
    THEN IF node.function_called = "ErrorDefinition" THEN "revert_error" ELSE "revert_other"
    ELSE "other_node"

\* lines 395-409 for a REVERT with the source range [start, end)
Lookups(start, end) ==
    IF ~file_resolves THEN {[found |-> "KeyError", node |-> NoNode]}
    ELSE IF envelop(interval_tree, start, end) = {}
    THEN {[found |-> "no_node", node |-> NoNode]}
    ELSE {[found |-> Found(n), node |-> n] :
             n \in first_nodes(envelop(interval_tree, start, end))}

\* lines 391-419: one pass of the loop over parsed_opcodes
RevertIndexStep ==
    /\ dec_pc = "done"
    /\ rv_i <= Len(pc_op_map)
    /\ LET op == pc_op_map[rv_i].op
           pc_of_op == pc_op_map[rv_i].pc
       IN  IF op = "REVERT" /\ pc_of_op \in DOMAIN pc_map /\ ~NoSource(pc_map[pc_of_op][3])
           THEN \E lookup \in Lookups(pc_map[pc_of_op][1], pc_map[pc_of_op][2]) :
                   LET found == lookup.found IN
                   /\ found \in NodeLookups
                   /\ contracts_revert_index' =
                         IF found = "revert_error"
                         THEN contracts_revert_index \cup {pc_of_op}
                         ELSE contracts_revert_index
                   \* line 413: assert isinstance(func_called, ErrorDefinition)
                   /\ dec_pc' = IF found = "revert_other" THEN "error" ELSE dec_pc
                   /\ revert_nodes' =
                         Append(revert_nodes,
                                [pc |-> pc_of_op, start |-> pc_map[pc_of_op][1],
                                 end |-> pc_map[pc_of_op][2], found |-> found,
                                 node |-> lookup.node])
           ELSE UNCHANGED <<contracts_revert_index, dec_pc, revert_nodes>>
    /\ rv_i' = rv_i + 1
    /\ UNCHANGED <<interval_tree, file_resolves>>
    /\ UNCHANGED <<opcodes_spl, source_map, op_i, op_pc, ignore, pc_op_map, sm_i,
                   last_data, pc_map>>
    /\ UNCHANGED <<schedVars, sanVars, libVars, typeVars, emissionVars>>

\* line 421: the loop has ended
RevertIndexReturn ==
    /\ dec_pc = "done"
    /\ rv_i > Len(pc_op_map)
    /\ dec_pc' = "indexed"
    /\ UNCHANGED <<opcodes_spl, source_map, op_i, op_pc, ignore, pc_op_map, sm_i,
                   last_data, pc_map, revVars>>
    /\ UNCHANGED <<schedVars, sanVars, libVars, typeVars, emissionVars>>

\* line 170: __contracts_revert_index has no entry
RevertIndexEmpty ==
    /\ rv_i = 1
    /\ contracts_revert_index = {}
    /\ interval_tree = {}
    /\ file_resolves = TRUE
    /\ revert_nodes = <<>>

\* no library search is going on
LibraryIdle ==
    /\ lib_pc = "idle"
    /\ contract_unit = 0
    /\ library_units = {}
    /\ lib_ids = {}
    /\ libraries = {}
    /\ source_units_queue = <<>>
    /\ contract_kind = None
    /\ contract_abstract = FALSE
    /\ deploy_body = None

\* source_unit.imports: the units that `unit` imports, in the order of their names
RECURSIVE SortedSeq(_)
SortedSeq(S) ==
    IF S = {} THEN <<>>
    ELSE LET m == CHOOSE u \in S : \A v \in S : u <= v
         IN  <<m>> \o SortedSeq(S \ {m})

imports(unit) == SortedSeq({e[1] : e \in in_edges(latest_graph, unit)})

\* the queue is as long as the model lets it grow
QueueAtBound ==
    /\ source_units_queue # <<>>
    /\ Len(source_units_queue) - 1 + Len(imports(Head(source_units_queue))) > MaxQueue

\* line 587: source_units_queue.extend(imp.source_unit for imp in source_unit.imports)
extend(queue, unit) == queue \o imports(unit)

\* lines 570-587: one pass of the loop of the library search.  The lib_id of the
\* library of a unit is written as the name of the unit.
LibrarySearchStep ==
    /\ lib_pc = "search"
    /\ Len(source_units_queue) > 0 /\ lib_ids # {}
    /\ ~QueueAtBound
    /\ LET source_unit == Head(source_units_queue)
           found == source_unit \in library_units /\ source_unit \in lib_ids
       IN  /\ lib_ids' = IF found THEN lib_ids \ {source_unit} ELSE lib_ids
           /\ libraries' = IF found THEN libraries \cup {source_unit} ELSE libraries
           /\ source_units_queue' = extend(Tail(source_units_queue), source_unit)
    /\ UNCHANGED <<lib_pc, contract_unit, library_units, contract_kind, contract_abstract,
                   deploy_body>>
    /\ UNCHANGED <<schedVars, sanVars, decVars, revVars, typeVars, emissionVars>>

\* line 589: assert len(lib_ids) == 0, "Not all libraries were found"
LibrarySearchEnd ==
    /\ lib_pc = "search"
    /\ ~(Len(source_units_queue) > 0 /\ lib_ids # {})
    /\ lib_pc' = IF lib_ids = {} THEN "found" ELSE "aborted"
    /\ UNCHANGED <<contract_unit, library_units, lib_ids, libraries, source_units_queue,
                   contract_kind, contract_abstract, deploy_body>>
    /\ UNCHANGED <<schedVars, sanVars, decVars, revVars, typeVars, emissionVars>>

ContractKinds == {"contract", "library", "interface"}

\* a deploy function that only a contract gets
deploy_func_body_contract_only(kind, abstract) ==
    IF kind = "contract"
    THEN IF ~abstract THEN "return cls._deploy"
         ELSE "raise Exception(\"Cannot deploy abstract contract\")"
    ELSE "raise Exception(\"Cannot deploy interface\")"

\* lines 301-321: the body of the deploy function
deploy_func_body(kind, abstract) ==
    IF kind \in {"contract", "library"}
    THEN IF ~abstract THEN "return cls._deploy"
         ELSE "raise Exception(\"Cannot deploy abstract contract\")"
    ELSE "raise Exception(\"Cannot deploy interface\")"

\* line 591: generate_deploy_func, for a contract of any kind
GenerateDeployFunc ==
    /\ lib_pc = "found"
    /\ \E kind \in ContractKinds, abstract \in BOOLEAN :
        /\ contract_kind' = kind
        /\ contract_abstract' = abstract
        /\ deploy_body' = deploy_func_body(kind, abstract)
    /\ lib_pc' = "deployed"
    /\ UNCHANGED <<contract_unit, library_units, lib_ids, libraries, source_units_queue>>
    /\ UNCHANGED <<schedVars, sanVars, decVars, revVars, typeVars, emissionVars>>

\* ---------------------------------------------------------- the type mapper
\* A type is a record with its tag (the name of its class in woke.ast.types) and
\* the fields of that class.  expr.length is None for an array without a length.
NoLength == -1

\* __init_sol_to_py_types, lines 196-207: (parameter type, return type)
sol_to_py_lookup(name) ==
    CASE name = "Address" -> <<"Union[Account, Address]", "Address">>
      [] name = "String" -> <<"str", "str">>
      [] name = "Bool" -> <<"bool", "bool">>
      [] name = "Bytes" -> <<"Union[bytearray, bytes]", "bytearray">>
      [] name = "Function" -> <<"Callable", "Callable">>

\* the declaration of a struct, and that of the contract that declares it
StructDecl(struct) ==
    IF struct.parent = "contract"
    THEN [name |-> struct.name, kind |-> "contract", parent |-> "contract1", nr |-> 1]
    ELSE [name |-> struct.name, kind |-> "global", parent |-> "unit1", nr |-> 1]

ParentDecl == [name |-> "List", kind |-> "global", parent |-> "unit1", nr |-> 1]

\* get_name, lines 220-221
get_name(declaration) == sanitized(declaration)

\* lines 797-803 and 925-932: the name of a struct, with that of its contract
StructName(struct) ==
    IF struct.parent = "contract"
    THEN get_name(ParentDecl) \o "." \o get_name(StructDecl(struct))
    ELSE get_name(StructDecl(struct))

\* an array is of the fixed-length form only below 32 elements
is_short_without_32(length) == length < 32

\* line 821
is_short(length) == length <= 32

RECURSIVE parse_type_and_import(_, _)
\* lines 790-833, for the types of the model
parse_type_and_import(expr, rt) ==
    CASE expr.tag = "Struct" -> StructName(expr)
      [] expr.tag = "Array" ->
            IF expr.length = NoLength
            THEN "List[" \o parse_type_and_import(expr.base_type, rt) \o "]"
            ELSE IF is_short(expr.length)
            THEN "List" \o ToString(expr.length) \o "["
                 \o parse_type_and_import(expr.base_type, rt) \o "]"
            ELSE "Annotated[List[" \o parse_type_and_import(expr.base_type, rt)
                 \o "], Length(" \o ToString(expr.length) \o ")]"
      [] expr.tag = "FixedBytes" -> "bytes" \o ToString(expr.bytes_count)
      [] expr.tag = "Int" -> "int" \o ToString(expr.bits_count)
      [] expr.tag = "UInt" -> "uint" \o ToString(expr.bits_count)
      [] expr.tag = "Mapping" ->
            "Dict[" \o parse_type_and_import(expr.key_type, rt) \o ", "
            \o parse_type_and_import(expr.value_type, rt) \o "]"
      [] OTHER -> sol_to_py_lookup(expr.tag)[IF rt THEN 2 ELSE 1]

RECURSIVE NamedByParse(_)
\* the declarations that parse_type_and_import(expr, ..) passes to get_name
NamedByParse(expr) ==
    CASE expr.tag = "Struct" ->
            {StructDecl(expr)} \cup (IF expr.parent = "contract" THEN {ParentDecl} ELSE {})
      [] expr.tag = "Array" -> NamedByParse(expr.base_type)
      [] expr.tag = "Mapping" -> NamedByParse(expr.key_type) \cup NamedByParse(expr.value_type)
      [] OTHER -> {}

\* lines 869-871
is_compound_type(var_type) == var_type.tag \in {"Array", "Mapping"}

RECURSIVE MappedMembers(_)
\* lines 882-892: the mapped types of the members that are no mapping and no array
MappedMembers(members) ==
    IF members = <<>> THEN <<>>
    ELSE (IF Head(members).tag \notin {"Mapping", "Array"}
          THEN <<parse_type_and_import(Head(members), TRUE)>> ELSE <<>>)
         \o MappedMembers(Tail(members))

\* a getter that returns the struct whatever its members are
get_struct_return_list_whole(struct) == <<StructName(struct)>>

\* get_struct_return_list, lines 874-908; of a pair (type, type_string) of the
\* code the type is kept
get_struct_return_list(struct) ==
    LET non_excluded == MappedMembers(struct.members) IN
    IF Len(struct.members) = Len(non_excluded)
    THEN <<StructName(struct)>>
    ELSE non_excluded

\* a parameter name that leaves the depth out
param_name_without_depth(prefix, depth) == prefix

\* lines 988 and 1005: "index" + str(depth) and "key" + str(depth)
param_name(prefix, depth) == prefix \o ToString(depth)

RECURSIVE generate_getter_helper(_, _, _)
\* lines 915-1048, for the types of the model: the list the helper returns, what
\* it leaves in `returns` and what it appends to `param_names` (of a pair
\* (name, type_string) of the code the name is kept)
generate_getter_helper(var_type, use_parse, depth) ==
    CASE var_type.tag = "Struct" ->
            [parsed |-> IF use_parse /\ depth # 0 THEN <<StructName(var_type)>> ELSE <<>>,
             returns |-> get_struct_return_list(var_type),
             param_names |-> <<>>]
      [] var_type.tag = "Array" ->
            LET sub == generate_getter_helper(var_type.base_type,
                                              is_compound_type(var_type.base_type), depth + 1)
            IN  [parsed |-> <<param_name("index", depth) \o ": int">> \o sub.parsed,
                 returns |-> sub.returns,
                 param_names |-> <<param_name("index", depth)>> \o sub.param_names]
      [] var_type.tag = "Mapping" ->
            LET key == generate_getter_helper(var_type.key_type, TRUE, depth + 1)
                key_type == key.parsed
                sub == generate_getter_helper(var_type.value_type, TRUE, depth + 1)
            IN  [parsed |-> <<param_name("key", depth) \o ": " \o key_type[1]>>
                            \o (IF is_compound_type(var_type.value_type) THEN sub.parsed
                                ELSE <<>>),
                 returns |-> sub.returns,
                 param_names |-> <<param_name("key", depth)>> \o key.param_names
                                 \o sub.param_names]
      [] var_type.tag \in {"FixedBytes", "Int", "UInt"} ->
            [parsed |-> IF use_parse THEN <<parse_type_and_import(var_type, FALSE)>> ELSE <<>>,
             returns |-> <<parse_type_and_import(var_type, TRUE)>>,
             param_names |-> <<>>]
      [] OTHER ->
            [parsed |-> IF use_parse THEN <<sol_to_py_lookup(var_type.tag)[1]>> ELSE <<>>,
             returns |-> <<sol_to_py_lookup(var_type.tag)[2]>>,
             param_names |-> <<>>]

RECURSIVE NamedByGetter(_, _)
\* the declarations that generate_getter_helper(var_type, .., depth) passes to get_name
NamedByGetter(var_type, depth) ==
    CASE var_type.tag = "Struct" ->
            IF depth # 0 \/ Len(MappedMembers(var_type.members)) = Len(var_type.members)
            THEN NamedByParse(var_type) ELSE {}
      [] var_type.tag = "Array" -> NamedByGetter(var_type.base_type, depth + 1)
      [] var_type.tag = "Mapping" -> NamedByGetter(var_type.value_type, depth + 1)
      [] OTHER -> {}

RECURSIVE join(_, _)
\* sep.join(strings)
join(sep, strings) ==
    IF strings = <<>> THEN ""
    ELSE IF Len(strings) = 1 THEN strings[1]
    ELSE strings[1] \o sep \o join(sep, Tail(strings))

\* lines 1052-1057
returns_str_of(returns) ==
    IF Len(returns) = 0 THEN "None"
    ELSE IF Len(returns) = 1 THEN returns[1]
    ELSE "Tuple[" \o join(", ", returns) \o "]"

\* sanitize_name (lines 1872-1880) for the declarations `named`, which lie in
\* different scopes or are one declaration
Renamed(renames, named) ==
    renames @@ [d \in named \ DOMAIN renames |-> new_name(d, d.name)]

GetNames(named) ==
    /\ global_renames' = Renamed(global_renames, {d \in named : d.kind = "global"})
    /\ contract_renames' =
          [p \in DOMAIN contract_renames |->
              Renamed(contract_renames[p], {d \in named : d.kind = "contract" /\ d.parent = p})]
    /\ returned' = [d \in DOMAIN returned |->
                       IF d \in named THEN returned[d] \cup {sanitized(d)} ELSE returned[d]]
    /\ calls' = calls + Cardinality(named)
    /\ UNCHANGED <<function_renames, struct_renames, event_renames, error_renames,
                   enum_renames>>

\* parse_type_and_import (lines 790-833) of the type of a parameter or of a return
\* value
ParseTypeAndImport ==
    /\ type_pc = "start"
    /\ \E rt \in BOOLEAN :
        /\ return_types' = rt
        /\ parsed_type' = parse_type_and_import(type_expr, rt)
    /\ GetNames(NamedByParse(type_expr))
    /\ type_pc' = "parsed"
    /\ UNCHANGED <<type_expr, returns_str, generated_params, param_names>>
    /\ UNCHANGED <<schedVars, decVars, revVars, libVars, emissionVars>>

\* generate_getter_for_state_var, lines 873-1057, for a public state variable of
\* the type
GenerateGetter ==
    /\ type_pc = "start"
    /\ LET got == generate_getter_helper(type_expr, FALSE, 0) IN
        /\ generated_params' = got.parsed
        /\ returns_str' = returns_str_of(got.returns)
        /\ param_names' = got.param_names
    /\ GetNames(NamedByGetter(type_expr, 0))
    /\ type_pc' = "getter"
    /\ UNCHANGED <<type_expr, return_types, parsed_type>>
    /\ UNCHANGED <<schedVars, decVars, revVars, libVars, emissionVars>>

\* no type is being mapped
TypeIdle ==
    /\ type_pc = "idle"
    /\ type_expr = <<>>
    /\ return_types = FALSE
    /\ parsed_type = None
    /\ returns_str = None
    /\ generated_params = <<>>
    /\ param_names = <<>>

\* SourceUnitImports.__init__, lines 1521-1526
NoImports ==
    [struct_imports |-> {}, enum_imports |-> {}, contract_imports |-> {},
     python_imports |-> {}, all_imports |-> <<>>]

\* lines 153, 157 and 159 of TypeGenerator.__init__
UnitAccumulatorsConstructed ==
    /\ current_source_unit = 0
    /\ source_unit_types = <<>>
    /\ source_unit_imports = NoImports
    /\ written_units = <<>>

\* no event and no error is being emitted
RecordIdle ==
    /\ record_pc = "idle"
    /\ record_kind = None
    /\ record_params = <<>>
    /\ unnamed_params_index = 1
    /\ parameters = <<>>
    /\ record_fields = <<>>

\* no function is being checked for overloads
OverloadIdle ==
    /\ ov_pc = "idle"
    /\ ov_contracts = <<>>
    /\ ov_i = 1
    /\ func_to_overload = {}
    /\ ov_checked = {}
    /\ ov_matches = {}

\* no function and no getter is being emitted
FunctionIdle ==
    /\ OverloadIdle
    /\ fn_pc = "idle"
    /\ fn_decl = [kind |-> None, state_mutability |-> None]
    /\ fn_params = <<>>
    /\ fn_returns = <<>>
    /\ overloads = <<>>
    /\ implementation = <<>>

\* no source unit is being emitted
EmissionIdle ==
    /\ em_pc = "idle"
    /\ UnitAccumulatorsConstructed
    /\ unit_names = {}
    /\ unit_files = {}
    /\ RecordIdle
    /\ FunctionIdle

TemplateIdle == RevertIndexEmpty /\ LibraryIdle /\ TypeIdle /\ EmissionIdle

\* ------------------------------------------------- contracts of a source unit
\* Every source unit declares a contract Derived and, after it, its base Base.
ContractNames == {"Derived", "Base"}

unit_contracts == <<"Derived", "Base">>

base_contracts(name) == IF name = "Derived" THEN <<"Base">> ELSE <<>>

Fqn(path, name) == <<path, name>>

\* generate_contract_template, lines 429-435: the duplicate assertion and the index
generate_contract_template(st, fqn) ==
    IF fqn \in st.inheritance_index
    THEN [st EXCEPT !.aborted = TRUE]
    ELSE [st EXCEPT !.inheritance_index = @ \cup {fqn},
                    !.templates = Append(@, fqn)]

\* generate_types_contract without its guard
AlreadyGenerated_unguarded(st, fqn) == FALSE

\* the guard of generate_types_contract, lines 1230-1233
AlreadyGenerated(st, fqn) == fqn \in st.already

RECURSIVE generate_types_contract(_, _, _)
RECURSIVE GenerateBases(_, _, _)

\* lines 1237-1249, the bases of the same source unit, in reversed order
GenerateBases(st, path, bases) ==
    IF bases = <<>> THEN st
    ELSE GenerateBases(generate_types_contract(st, path, bases[Len(bases)]), path,
                       SubSeq(bases, 1, Len(bases) - 1))

\* lines 1228-1262
generate_types_contract(st, path, name) ==
    LET fqn == Fqn(path, name) IN
    IF st.aborted THEN st
    ELSE IF AlreadyGenerated(st, fqn)
    THEN [st EXCEPT !.skipped = @ \cup {fqn}]
    ELSE LET st1 == [st EXCEPT !.already = @ \cup {fqn}]
             st2 == GenerateBases(st1, path, base_contracts(name))
             st3 == IF st2.aborted THEN st2
                    ELSE [st2 EXCEPT !.index =
                            IF \E i \in 1..Len(@) : @[i] = fqn THEN @ ELSE Append(@, fqn)]
         IN  IF st3.aborted THEN st3 ELSE generate_contract_template(st3, fqn)

RECURSIVE GenerateContracts(_, _, _)
\* generate_types_source_unit, lines 1305-1306
GenerateContracts(st, path, cs) ==
    IF cs = <<>> THEN st
    ELSE GenerateContracts(generate_types_contract(st, path, Head(cs)), path, Tail(cs))

\* the run of generate_types that is going on: 0, or 1 after SecondRun
Run == Len(first_run)

\* __init__.py (line 1499); the unit files have the numbers of their paths
ManifestFile == 0

\* what an earlier run of the tool left under __pytypes_dir
StaleFiles == {[name |-> 1, run |-> -1], [name |-> ManifestFile, run |-> -1]}

\* a reset that removes nothing
clean_type_dir_incremental(dir) == dir

\* clean_type_dir, lines 1308-1315: rmtree and mkdir
clean_type_dir(dir) == {}

\* write_source_unit_to_file, lines 1317-1329: the file of the unit is created, or
\* appended to when this run wrote it before
write_source_unit_to_file(dir, path) == dir \cup {[name |-> path, run |-> Run]}

\* lines 1499-1500: init_path.write_text
write_manifest(dir) ==
    {f \in dir : f.name # ManifestFile} \cup {[name |-> ManifestFile, run |-> Run]}

\* the units still in the residual graph that the unit at `path` imports under
\* one of its names, when the unit is generated
UnemittedImports(path) ==
    LET names == paths_to_source_unit_names(path)
    IN  {e[1] : e \in {e \in graph.edges : e[2] \in names /\ e[1] \notin names}}

EmitterState ==
    [already |-> already_generated_contracts,
     inheritance_index |-> contracts_inheritance_index,
     index |-> contracts_index,
     skipped |-> skipped_contracts,
     templates |-> <<>>,
     aborted |-> FALSE]

\* generate_source_unit (lines 1414-1419) for the unit at `path`, reached from
\* `via` (the frontier loop or the cycle flush); next_pc is where the caller goes on
generate_source_unit(path, via, next_pc) ==
    LET st == GenerateContracts(EmitterState, path, unit_contracts) IN
    /\ emitted' = Append(emitted, [path |-> path, iteration |-> iteration, via |-> via,
                                   templates |-> st.templates,
                                   pending |-> UnemittedImports(path)])
    /\ already_generated_contracts' = st.already
    /\ contracts_inheritance_index' = st.inheritance_index
    /\ contracts_index' = st.index
    /\ skipped_contracts' = st.skipped
    /\ pc' = IF st.aborted THEN "aborted" ELSE next_pc
    \* line 1417, not reached when generate_types_source_unit raises
    /\ type_dir' = IF st.aborted THEN type_dir ELSE write_source_unit_to_file(type_dir, path)
    /\ UNCHANGED cleans
    \* line 1419
    /\ global_renames' = <<>>
    /\ UNCHANGED <<scopedRenames, returned, calls, decVars, templateVars>>

NoEmission ==
    UNCHANGED <<emitted, already_generated_contracts, contracts_inheritance_index,
                contracts_index, skipped_contracts, sanVars, decVars, templateVars>>

NoFiles == UNCHANGED <<type_dir, cleans>>

\* ------------------------------------------- the accumulators of a source unit
\* the source units whose emission is followed piece by piece; unit p is the
\* parent "unit<p>" of its global declarations
UnitPaths == {1, 2}

UnitName(p) == "unit" \o ToString(p)

\* the declarations these units emit or import
EmittedDecls ==
    {d \in Decls : d.name \in {"from", "list"} /\ d.kind \in {"global", "contract"}}

\* add_str_to_types, lines 213-218; a piece of text is kept with the unit that was
\* being generated when it was added
add_str_to_types(types, unit, string) == Append(types, [unit |-> unit, text |-> string])

\* generate_import, lines 1569-1578, kept with the unit that asked for it
generate_import(declaration, unit) ==
    [from |-> declaration.parent, name |-> get_name(declaration), unit |-> unit]

\* sorted(...) of a set of import lines: one fixed order of its elements
RECURSIVE sorted_imports(_)
sorted_imports(S) ==
    IF S = {} THEN <<>>
    ELSE LET x == CHOOSE x \in S : TRUE IN <<x>> \o sorted_imports(S \ {x})

\* SourceUnitImports.__str__, lines 1528-1559: the lines are added to __all_imports
imports_str(imp) ==
    imp.all_imports \o sorted_imports(imp.python_imports)
        \o sorted_imports(imp.contract_imports) \o sorted_imports(imp.struct_imports)
        \o sorted_imports(imp.enum_imports)

\* a cleanup that forgets the python imports
cleanup_imports_keeping_python(imp) == [NoImports EXCEPT !.python_imports = imp.python_imports]

\* cleanup_imports, lines 1561-1566
cleanup_imports(imp) == NoImports

RECURSIVE TemplateTexts(_, _, _)
\* the text of the contracts generated for the unit (lines 363-596)
TemplateTexts(types, unit, templates) ==
    IF templates = <<>> THEN types
    ELSE TemplateTexts(add_str_to_types(types, unit, Head(templates)[2]), unit,
                       Tail(templates))

Indices == <<already_generated_contracts, contracts_inheritance_index, contracts_index,
             skipped_contracts>>

\* lines 1415-1416: generate_types_source_unit begins for the unit at `path`
BeginUnit(path) ==
    /\ em_pc = "ready"
    /\ Fqn(path, unit_contracts[1]) \notin already_generated_contracts
    /\ current_source_unit' = path
    /\ LET st == GenerateContracts(EmitterState, path, unit_contracts) IN
        /\ already_generated_contracts' = st.already
        /\ contracts_inheritance_index' = st.inheritance_index
        /\ contracts_index' = st.index
        /\ skipped_contracts' = st.skipped
        /\ source_unit_types' = TemplateTexts(source_unit_types, path, st.templates)
    /\ em_pc' = "generating"
    /\ UNCHANGED <<source_unit_imports, written_units, sanVars, decVars, revVars, libVars,
                   typeVars, pathVars, recordVars, functionVars>>
    /\ UNCHANGED <<latest_graph, fs_path, source_units, pc, graph, sources, previous_len,
                   cycles_detected, cycles, generated_cycles, flush_members, iteration,
                   pops, emitted, warnings, first_run, type_dir, cleans>>

UnitFrame ==
    UNCHANGED <<schedVars, decVars, revVars, libVars, typeVars, pathVars, recordVars, functionVars, em_pc,
                current_source_unit, written_units>>

\* a declaration of the unit, or a member of one of its contracts, is emitted
\* under the name get_name gives it (lines 612, 638, 1266)
EmitDeclaration(d) ==
    /\ em_pc = "generating"
    /\ calls < MaxCalls
    /\ d.kind = "global" => d.parent = UnitName(current_source_unit)
    /\ source_unit_types' = add_str_to_types(source_unit_types, current_source_unit,
                                             get_name(d))
    /\ GetNames({d})
    /\ UNCHANGED source_unit_imports
    /\ UnitFrame

ImportKinds == {"struct_imports", "enum_imports", "contract_imports"}

\* generate_struct_import, generate_enum_import and generate_contract_import,
\* lines 1587-1629: a declaration of another source unit is imported
ImportDeclaration(d, kind) ==
    /\ em_pc = "generating"
    /\ calls < MaxCalls
    /\ d.kind = "global"
    /\ d.parent # UnitName(current_source_unit)
    /\ source_unit_imports' =
          [source_unit_imports EXCEPT
              ![kind] = @ \cup {generate_import(d, current_source_unit)}]
    /\ GetNames({d})
    /\ UNCHANGED source_unit_types
    /\ UnitFrame

\* add_python_import, lines 1631-1632, as generate_types_enum calls it (line 636)
AddPythonImport ==
    /\ em_pc = "generating"
    /\ \A i \in source_unit_imports.python_imports : i.unit # current_source_unit
    /\ source_unit_imports' = [source_unit_imports EXCEPT !.python_imports =
                      @ \cup {[from |-> "enum", name |-> "IntEnum",
                               unit |-> current_source_unit]}]
    /\ UNCHANGED <<source_unit_types, sanVars>>
    /\ UnitFrame

\* line 1417: write_source_unit_to_file gets str(self.__imports) and the text
WriteUnit ==
    /\ em_pc = "generating"
    /\ written_units' = Append(written_units,
                               [unit |-> current_source_unit,
                                imports |-> imports_str(source_unit_imports),
                                types |-> source_unit_types])
    /\ source_unit_imports' =
          [source_unit_imports EXCEPT !.all_imports = imports_str(source_unit_imports)]
    /\ em_pc' = "written"
    /\ UNCHANGED <<schedVars, sanVars, decVars, revVars, libVars, typeVars, pathVars,
                   recordVars, functionVars,
                   current_source_unit, source_unit_types>>

\* lines 1418-1419: cleanup_source_unit (lines 1332-1334) and clear_global_renames
CleanupUnit ==
    /\ em_pc = "written"
    /\ source_unit_types' = <<>>
    /\ source_unit_imports' = cleanup_imports(source_unit_imports)
    /\ global_renames' = <<>>
    /\ em_pc' = "ready"
    /\ UNCHANGED <<schedVars, scopedRenames, returned, calls, decVars, revVars, libVars,
                   typeVars, pathVars, recordVars, functionVars, current_source_unit, written_units>>

\* -------------------------------------------------------------------- inputs
\* fs_path is given up to a renaming of the paths: unit 1 lies at path 1 and a
\* unit lies at a path already used or at the next unused one
PathMaps(n) ==
    {f \in [1..n -> 1..n] :
        /\ f[1] = 1
        /\ \A i \in 2..n : \E j \in 1..(i - 1) : f[i] <= f[j] + 1}

\* import graphs of n units with at most MaxEdges imports; no unit imports itself
Graphs(n) ==
    {[nodes |-> 1..n, edges |-> E] :
        E \in {E \in SUBSET {e \in (1..n) \X (1..n) : e[1] # e[2]} :
                    Cardinality(E) <= MaxEdges}}

PathsOf(f) == {f[u] : u \in DOMAIN f}

\* a build without source units, for the runs that exercise one component alone
NoBuild ==
    /\ latest_graph = [nodes |-> {}, edges |-> {}]
    /\ fs_path = <<>>
    /\ source_units = {}

\* TypeGenerator.__init__, lines 150-171, and the locals of generate_types
GeneratorConstructed ==
    /\ pc = "start"
    /\ graph = [nodes |-> {}, edges |-> {}]
    /\ sources = [u \in Units |-> 0]
    /\ previous_len = 0
    /\ cycles_detected = FALSE
    /\ cycles = {}
    /\ generated_cycles = {}
    /\ flush_members = {}
    /\ iteration = 0
    /\ pops = 0
    /\ emitted = <<>>
    /\ already_generated_contracts = {}
    /\ contracts_inheritance_index = {}
    /\ contracts_index = <<>>
    /\ skipped_contracts = {}
    /\ warnings = <<>>
    /\ first_run = <<>>
    /\ type_dir = StaleFiles
    /\ cleans = 0

Init ==
    /\ \E n \in Units :
        /\ latest_graph \in Graphs(n)
        /\ fs_path \in PathMaps(n)
    \* every path has a SourceUnit, or every path but the first
    /\ \E missing \in SUBSET {1} : source_units = PathsOf(fs_path) \ missing
    /\ GeneratorConstructed
    /\ SanitizerConstructed
    /\ DecoderIdle
    /\ TemplateIdle

\* ------------------------------------------------------------------- actions
Inputs == <<latest_graph, fs_path, source_units>>

\* lines 1421-1441
Start ==
    /\ pc = "start"
    /\ graph' = latest_graph
    /\ previous_len' = Cardinality(latest_graph.nodes)
    /\ cycles_detected' = FALSE
    /\ cycles' = {}
    /\ pc' = "outer"
    \* line 1429
    /\ type_dir' = clean_type_dir(type_dir)
    /\ cleans' = cleans + 1
    /\ NoEmission
    /\ UNCHANGED <<Inputs, sources, generated_cycles, flush_members, iteration,
                   pops, warnings, first_run>>

\* lines 1443-1449: the loop test and the frontier of the iteration
OuterLoop ==
    /\ pc = "outer"
    /\ IF Cardinality(graph.nodes) > 0
       THEN /\ sources' = [u \in Units |->
                             IF u \in graph.nodes /\ in_degree(graph, u) = 0 THEN 1 ELSE 0]
            /\ iteration' = iteration + 1
            /\ pc' = "inner"
       ELSE /\ pc' = "end"
            /\ UNCHANGED <<sources, iteration>>
    /\ NoEmission
    /\ NoFiles
    /\ UNCHANGED <<Inputs, graph, previous_len, cycles_detected, cycles,
                   generated_cycles, flush_members, pops, warnings, first_run>>

HeapNonEmpty == \E u \in Units : sources[u] > 0

\* a heap that gives its largest name
HeapMax == CHOOSE u \in Units : sources[u] > 0 /\ \A v \in Units : sources[v] > 0 => u >= v

\* heapq.heappop: the smallest name of the heap
HeapMin == CHOOSE u \in Units : sources[u] > 0 /\ \A v \in Units : sources[v] > 0 => u <= v

\* line 1460: the successors pushed while `source_unit_name` is processed
PromotedBy(g, source_unit_name) ==
    {e[2] : e \in {e \in out_edges(g, source_unit_name) : in_degree(g, e[2]) = 1}}

\* lines 1451-1463: one pass of the inner loop
PopSource ==
    /\ pc = "inner"
    /\ HeapNonEmpty
    /\ LET source == HeapMin
           path == fs_path[source]
           names == paths_to_source_unit_names(path)
           \* each edge is looked at once, so a name is pushed once per edge
           pushes == [u \in Units |->
                        Cardinality({n \in names : u \in PromotedBy(graph, n)})]
       IN  /\ sources' = [u \in Units |->
                            sources[u] - (IF u = source THEN 1 ELSE 0) + pushes[u]]
           /\ graph' = remove_nodes_from(graph, names)
           /\ pops' = pops + 1
           /\ IF path \in source_units
              THEN generate_source_unit(path, "frontier", "inner")
              ELSE NoEmission /\ NoFiles /\ pc' = "inner"
    /\ UNCHANGED <<Inputs, previous_len, cycles_detected, cycles, generated_cycles,
                   flush_members, iteration, warnings, first_run>>

\* lines 1465-1480, entered when the heap is empty
DetectCycles ==
    /\ pc = "inner"
    /\ ~HeapNonEmpty
    /\ LET found == simple_cycles(graph) IN
        /\ cycles_detected' = (cycles_detected \/ found # {})
        /\ cycles' = cycles \cup found
        /\ generated_cycles' = {c \in found : is_closed_cycle(graph, c)}
    /\ flush_members' = {}
    /\ pc' = "flush"
    /\ NoEmission
    /\ NoFiles
    /\ UNCHANGED <<Inputs, graph, sources, previous_len, iteration, pops, warnings,
                   first_run>>

\* line 1482: the next cycle of sorted(generated_cycles).  The closed cycles of a
\* graph are pairwise disjoint, so no two compare with <, and sorted() returns
\* them in the iteration order of the set, which depends on the hash seed.
NextCycle ==
    /\ pc = "flush"
    /\ flush_members = {}
    /\ \E cycle \in generated_cycles :
        /\ flush_members' = cycle
        /\ generated_cycles' = generated_cycles \ {cycle}
    /\ NoEmission
    /\ NoFiles
    /\ UNCHANGED <<Inputs, pc, graph, sources, previous_len, cycles_detected, cycles,
                   iteration, pops, warnings, first_run>>

\* line 1483: `for source in cycle` iterates a frozenset of str
IterationChoices(members) == members

\* lines 1483-1487: one member of the cycle being flushed
FlushSource ==
    /\ pc = "flush"
    /\ \E source \in IterationChoices(flush_members) :
        LET path == fs_path[source] IN
        /\ flush_members' = flush_members \ {source}
        /\ graph' = remove_nodes_from(graph, paths_to_source_unit_names(path))
        /\ IF path \in source_units
           THEN generate_source_unit(path, "cycle", "flush")
           ELSE NoEmission /\ NoFiles /\ pc' = "flush"
    /\ UNCHANGED <<Inputs, sources, previous_len, cycles_detected, cycles,
                   generated_cycles, iteration, pops, warnings, first_run>>

\* a loop that never takes the break of line 1490
NoProgress_never == FALSE

\* line 1489: the test that ends the loop when an iteration removed nothing
NoProgress == Cardinality(graph.nodes) = previous_len

\* lines 1489-1491
CheckProgress ==
    /\ pc = "flush"
    /\ flush_members = {}
    /\ generated_cycles = {}
    /\ IF NoProgress
       THEN pc' = "end" /\ UNCHANGED previous_len
       ELSE pc' = "outer" /\ previous_len' = Cardinality(graph.nodes)
    /\ NoEmission
    /\ NoFiles
    /\ UNCHANGED <<Inputs, graph, sources, cycles_detected, cycles, generated_cycles,
                   flush_members, iteration, pops, warnings, first_run>>

\* lines 1493-1511: the warning and the manifest
Finish ==
    /\ pc = "end"
    /\ warnings' = IF cycles_detected THEN Append(warnings, cycles) ELSE warnings
    /\ pc' = "done"
    /\ type_dir' = write_manifest(type_dir)
    /\ UNCHANGED cleans
    /\ NoEmission
    /\ UNCHANGED <<Inputs, graph, sources, previous_len, cycles_detected, cycles,
                   generated_cycles, flush_members, iteration, pops, first_run>>

Next ==
    \/ Start
    \/ OuterLoop
    \/ PopSource
    \/ DetectCycles
    \/ NextCycle
    \/ FlushSource
    \/ CheckProgress
    \/ Finish

Spec == Init /\ [][Next]_vars

\* a second run of generate_types on the same input, with a new TypeGenerator
\* (lines 150-171) in a new process; the result of the first run is kept
SecondRun ==
    /\ pc = "done"
    /\ first_run = <<>>
    /\ first_run' = <<[emitted |-> emitted, contracts_index |-> contracts_index,
                       warnings |-> warnings]>>
    /\ pc' = "start"
    /\ graph' = [nodes |-> {}, edges |-> {}]
    /\ sources' = [u \in Units |-> 0]
    /\ previous_len' = 0
    /\ cycles_detected' = FALSE
    /\ cycles' = {}
    /\ generated_cycles' = {}
    /\ flush_members' = {}
    /\ iteration' = 0
    /\ pops' = 0
    /\ emitted' = <<>>
    /\ already_generated_contracts' = {}
    /\ contracts_inheritance_index' = {}
    /\ contracts_index' = <<>>
    /\ skipped_contracts' = {}
    /\ warnings' = <<>>
    /\ cleans' = 0
    /\ UNCHANGED type_dir
    /\ global_renames' = <<>>
    /\ contract_renames' = [p \in ParentsOf("contract") |-> <<>>]
    /\ function_renames' = [p \in ParentsOf("function") |-> <<>>]
    /\ struct_renames' = [p \in ParentsOf("struct") |-> <<>>]
    /\ event_renames' = [p \in ParentsOf("event") |-> <<>>]
    /\ error_renames' = [p \in ParentsOf("error") |-> <<>>]
    /\ enum_renames' = [p \in ParentsOf("enum") |-> <<>>]
    /\ UNCHANGED <<Inputs, returned, calls, decVars, templateVars>>

DetNext == Next \/ SecondRun

\* two runs on the same input, one after the other
DetSpec == Init /\ [][DetNext]_vars

\* ------------------------------------------------------------ the scheduler
EmittedPaths(em) == [i \in 1..Len(em) |-> em[i].path]

EmittedSet == {emitted[i].path : i \in 1..Len(emitted)}

Acyclic(g) == simple_cycles(g) = {}

OwnFiles == \A u, v \in latest_graph.nodes : fs_path[u] = fs_path[v] => u = v

\* C1: for an acyclic import graph and any mapping of unit names to files, a unit
\* is generated only when none of the units it imports is still in the residual
\* graph.
C1_ImportsEmittedFirst ==
    Acyclic(latest_graph) => \A i \in 1..Len(emitted) : emitted[i].pending = {}

\* C2: two runs on the same input emit the units in the same order, fill the
\* manifest's contract index in the same order and log the same warning.
C2_Deterministic ==
    (pc = "done" /\ first_run # <<>>) =>
        /\ EmittedPaths(first_run[1].emitted) = EmittedPaths(emitted)
        /\ first_run[1].contracts_index = contracts_index
        /\ first_run[1].warnings = warnings

\* C3: when the loop has ended the residual graph is empty and every source unit
\* of the build has been generated, cyclic imports included.
C3_EverythingEmitted ==
    pc = "done" => (graph.nodes = {} /\ source_units \subseteq EmittedSet)

\* C4: the loops of generate_types are bounded: an outer iteration that does not
\* end the loop removes a unit, so there are at most one more iterations than
\* units, and the inner loop pops at most once per unit and per import.
C4_LoopsBounded ==
    /\ iteration <= Cardinality(latest_graph.nodes) + 1
    /\ pops <= Cardinality(latest_graph.nodes) + Cardinality(latest_graph.edges)
    /\ pc = "outer" =>
          Cardinality(graph.nodes) + iteration <= Cardinality(latest_graph.nodes)

C4_StoppedWithoutProgress == pc = "done" /\ graph.nodes # {} /\ iteration >= 1

ThreeCycle ==
    /\ latest_graph.nodes = {1, 2, 3}
    /\ latest_graph.edges \in {{<<1, 2>>, <<2, 3>>, <<3, 1>>}, {<<2, 1>>, <<3, 2>>, <<1, 3>>}}
    /\ OwnFiles
    /\ source_units = PathsOf(fs_path)

\* C5: for the 3-cycle A -> B -> C -> A nothing is popped from the frontier, the
\* three units are generated from the cycle flush of the first iteration, and one
\* warning is logged, which lists the one cycle {A, B, C}.
C5_ThreeCycleFlushed ==
    (ThreeCycle /\ pc = "done") =>
        /\ pops = 0
        /\ Len(emitted) = 3
        /\ EmittedSet = source_units
        /\ \A i \in 1..3 : emitted[i].via = "cycle" /\ emitted[i].iteration = 1
        /\ warnings = <<{{1, 2, 3}}>>

C5_ThreeCycleDone == ThreeCycle /\ pc = "done"

\* ------------------------------------------------- emitting a contract twice
TemplateCount(fqn) ==
    Cardinality({ij \in (1..Len(emitted)) \X (1..Len(unit_contracts)) :
                    /\ ij[2] <= Len(emitted[ij[1]].templates)
                    /\ emitted[ij[1]].templates[ij[2]] = fqn})

\* C10 as stated: an attempt to emit a contract already emitted aborts the run.
C10_ReemissionIsFatal == skipped_contracts # {} => pc = "aborted"

\* C10 amended: an attempt to emit a contract already emitted is skipped by
\* generate_types_contract, which returns without emitting it again; the run goes
\* on, no contract is emitted twice and the assertion of
\* generate_contract_template does not fire.
C10_ReemissionSkipped ==
    /\ pc # "aborted"
    /\ \A fqn \in already_generated_contracts : TemplateCount(fqn) <= 1
    /\ skipped_contracts \subseteq contracts_inheritance_index

\* a unit was generated twice, so each of its contracts was attempted again
C10_UnitGeneratedTwice ==
    /\ pc = "done"
    /\ skipped_contracts # {}
    /\ Len(emitted) > Cardinality(EmittedSet)

\* ------------------------------------------------- the sanitizer on its own
SanInit ==
    NoBuild /\ GeneratorConstructed /\ SanitizerConstructed /\ DecoderIdle /\ TemplateIdle

SanNext ==
    \/ \E d \in Decls : SanitizeName(d)
    \/ ClearGlobalRenames

\* any sequence of sanitize_name and clear_global_renames calls
SanSpec == SanInit /\ [][SanNext]_vars

\* C6: sanitize_name never returns two different identifiers for one declaration.
C6_OneIdentifierPerDeclaration ==
    \A d \in Decls : Cardinality(returned[d]) <= 1

Injective(renames) ==
    \A d1, d2 \in DOMAIN renames : renames[d1] = renames[d2] => d1 = d2

AllTables ==
    {global_renames}
    \cup {contract_renames[p] : p \in ParentsOf("contract")}
    \cup {function_renames[p] : p \in ParentsOf("function")}
    \cup {struct_renames[p] : p \in ParentsOf("struct")}
    \cup {event_renames[p] : p \in ParentsOf("event")}
    \cup {error_renames[p] : p \in ParentsOf("error")}
    \cup {enum_renames[p] : p \in ParentsOf("enum")}

\* C7: no rename table maps two declarations to one identifier.
C7_TablesInjective == \A renames \in AllTables : Injective(renames)

\* two declarations of one original name are in the global table, one of them
\* sanitized a second time after clear_global_renames
C7_SameNameTwice ==
    \E d1, d2 \in DOMAIN global_renames :
        d1 # d2 /\ d1.name = d2.name /\ Cardinality(returned[d1]) = 2

\* --------------------------------------------------- the decoder on its own
OpcodeTokens == {"PUSH1", "PUSH2", "ADD", "STOP", "0x05"}

RECURSIVE SeqsUpTo(_, _)
\* the sequences over S of length 1..n
SeqsUpTo(S, n) ==
    IF n = 0 THEN {}
    ELSE {<<x>> : x \in S}
         \cup {Append(q, x) : q \in SeqsUpTo(S, n - 1), x \in S}

ExampleOpcodes == <<"PUSH1", "0x05", "ADD", "STOP">>

ExampleSourceMap == <<<<"1", "2", "0", "-", "-">>, <<"", "", "", "1", "-">>>>

\* the items of a source map: all five fields, or the empty item
SourceMapItems ==
    {<<"">>}
    \cup {<<s, l, f, j, "-">> :
            s \in {"", "1", "3"}, l \in {"", "2"}, f \in {"", "0"}, j \in {"", "-", "1"}}

DecInit ==
    /\ NoBuild /\ GeneratorConstructed /\ SanitizerConstructed
    /\ \/ /\ opcodes_spl \in SeqsUpTo(OpcodeTokens, MaxTokens)
          /\ source_map = ExampleSourceMap
       \/ /\ opcodes_spl = <<"ADD", "PUSH2", "0x05", "STOP", "STOP">>
          /\ source_map \in SeqsUpTo(SourceMapItems, MaxEntries)
    /\ dec_pc = "opcodes"
    /\ DecoderLocals
    /\ TemplateIdle

DecNext ==
    \/ ParseOpcodesStep
    \/ ParseOpcodesReturn
    \/ ParseSourceMapStep
    \/ ParseSourceMapReturn

\* lines 386-389 of generate_contract_template: both parsers on one contract
DecSpec == DecInit /\ [][DecNext]_vars

\* the size in bytes of an instruction, by its mnemonic
RefSize(op) ==
    CASE op = "PUSH1" -> 2
      [] op = "PUSH2" -> 3
      [] OTHER -> 1

RECURSIVE RefInstructions(_, _)
\* the tokens that are instructions: every token but the one after a PUSH
RefInstructions(tokens, i) ==
    IF i > Len(tokens) THEN <<>>
    ELSE <<tokens[i]>> \o RefInstructions(tokens, IF RefSize(tokens[i]) > 1 THEN i + 2
                                                  ELSE i + 1)

RECURSIVE SumSizes(_, _)
SumSizes(ops, k) == IF k = 0 THEN 0 ELSE SumSizes(ops, k - 1) + RefSize(ops[k])

OpcodesParsed == dec_pc \in {"source_map", "done"}

\* C8: the decoded instructions are the tokens that are no PUSH operand, each at
\* the sum of the sizes of the instructions before it (PUSHn: n+1, others: 1);
\* "PUSH1 0x05 ADD STOP" gives the program counters {0, 2, 3}.
C8_ProgramCounters ==
    OpcodesParsed =>
        /\ [k \in 1..Len(pc_op_map) |-> pc_op_map[k].op] = RefInstructions(opcodes_spl, 1)
        /\ \A k \in 1..Len(pc_op_map) :
              pc_op_map[k].pc = SumSizes(RefInstructions(opcodes_spl, 1), k - 1)
        /\ opcodes_spl = ExampleOpcodes =>
              {pc_op_map[k].pc : k \in 1..Len(pc_op_map)} = {0, 2, 3}

C8_ExampleParsed == OpcodesParsed /\ opcodes_spl = ExampleOpcodes

\* the field x of the nearest item at or before i that gives it, or the default
Nearest(i, x, default) ==
    LET given == {j \in 1..i : Len(source_map[j]) >= x /\ source_map[j][x] # ""}
    IN  IF given = {} THEN default
        ELSE LET j == CHOOSE j \in given : \A k \in given : k <= j
             IN  IF x <= 3 THEN int(source_map[j][x]) ELSE source_map[j][x]

\* C9: the record at the program counter of instruction i is (start,
\* start+length, file-id, jump-kind), each field taken from the nearest item at
\* or before i that gives it, the defaults (-1, -1, -1, None) if there is none;
\* "1:2:0:-:-;:::1:-" gives the second instruction start 1, length 2, file-id 0
\* and jump-kind "1".
C9_DeltaInheritance ==
    dec_pc = "done" =>
        /\ \A i \in 1..Len(source_map) :
            /\ pc_op_map[i].pc \in DOMAIN pc_map
            /\ pc_map[pc_op_map[i].pc] =
                 <<Nearest(i, 1, -1), Nearest(i, 1, -1) + Nearest(i, 2, -1),
                   Nearest(i, 3, -1), Nearest(i, 4, None)>>
        /\ source_map = ExampleSourceMap => pc_map[pc_op_map[2].pc] = <<1, 1 + 2, 0, "1">>

C9_ExampleDecoded ==
    dec_pc = "done" /\ source_map = ExampleSourceMap /\ opcodes_spl = ExampleOpcodes

\* ------------------------------------------ the sanitizer: names and scopes
ContractMembers(name) == {d \in Decls : d.kind = "contract" /\ d.name = name}

\* C16 as stated: the identifier of a contract member named list is list_.
C16_ListGetsUnderscore ==
    \A d \in ContractMembers("list") : returned[d] \subseteq {"list_"}

\* C16 amended: a contract member named list keeps the identifier list unless
\* another member of the same contract already has it (the reserved identifier
\* List does not block list); a member named List never gets the identifier List.
C16_ListKeepsItsName ==
    /\ \A d \in ContractMembers("list") :
          d \in DOMAIN contract_renames[d.parent] =>
             \/ contract_renames[d.parent][d] = "list"
             \/ \E d2 \in DOMAIN contract_renames[d.parent] :
                   d2 # d /\ contract_renames[d.parent][d2] = "list"
    /\ \A d \in ContractMembers("List") : "List" \notin returned[d]

C16_ListAndListSanitized ==
    /\ \E d \in ContractMembers("list") : returned[d] = {"list"}
    /\ \E d \in ContractMembers("List") : returned[d] = {"List_"}

\* C18: when sanitize_name stores an identifier for a declaration of a scope
\* other than the global one, the identifier is none of the identifiers the
\* global rename table holds at that moment.
C18_GlobalRenamesBlockScopedNames ==
    [][\A d \in Decls :
          (d.kind # "global" /\ d \notin DOMAIN renames_of(d)
                             /\ d \in DOMAIN (renames_of(d))')
             => (renames_of(d))'[d] \notin Values(global_renames)]_vars

\* ------------------------------------------------- the scheduler: the order
\* C19: the members of a closed cycle are flushed in the sorted order of their
\* names: the member taken is smaller than every member still to be flushed.
C19_CycleMembersSorted ==
    [][(pc = "flush" /\ flush_members # {} /\ flush_members' # flush_members)
          => \A s \in flush_members \ flush_members' : \A u \in flush_members' : s < u]_vars

\* every unit name has its own source file, which is a source unit of the build
OwnSourceFiles == OwnFiles /\ source_units = PathsOf(fs_path)

EmittedBefore(i) == {emitted[j].path : j \in 1..(i - 1)}

\* the units not yet emitted before step i all of whose imports have been emitted
Ready(i) ==
    {u \in latest_graph.nodes \ EmittedBefore(i) :
        \A e \in latest_graph.edges : e[2] = u => e[1] \in EmittedBefore(i)}

\* C20: for an acyclic import graph with one source file per unit name, every
\* emitted unit is the smallest of the units all of whose imports have been
\* emitted, the heap of the inner loop holds exactly the units without imports
\* in the residual graph (a unit joins it when its last import is removed), and
\* the one pass of the outer loop emits every unit.
C20_SmallestTopologicalOrder ==
    (Acyclic(latest_graph) /\ OwnSourceFiles) =>
        /\ \A i \in 1..Len(emitted) :
              /\ emitted[i].path \in Ready(i)
              /\ \A u \in Ready(i) : emitted[i].path <= u
              /\ emitted[i].via = "frontier" /\ emitted[i].iteration = 1
        /\ pc = "inner" =>
              \A u \in Units :
                 sources[u] = IF u \in graph.nodes /\ in_degree(graph, u) = 0 THEN 1 ELSE 0
        /\ pc = "done" => Len(emitted) = Cardinality(latest_graph.nodes)

\* three units, the smallest name imports the two others
C20_OrderNotByName ==
    /\ pc = "done" /\ Acyclic(latest_graph) /\ OwnSourceFiles
    /\ latest_graph.edges = {<<3, 1>>, <<2, 1>>}
    /\ EmittedPaths(emitted) = <<2, 3, 1>>

\* --------------------------------------------------- the output directory
FilesOfThisRun == {f \in type_dir : f.run = Run}

\* C17: a run deletes and recreates the output directory once, before it writes a
\* unit file or the manifest: before the reset the directory holds nothing of
\* this run, after it nothing but files of this run, the manifest among them
\* when the run has ended.
C17_DirectoryResetOnce ==
    /\ cleans <= 1
    /\ pc = "start" => (cleans = 0 /\ FilesOfThisRun = {})
    /\ pc # "start" => (cleans = 1 /\ type_dir = FilesOfThisRun)
    /\ pc = "done" => [name |-> ManifestFile, run |-> Run] \in type_dir

\* a run that found files of an earlier run has ended with a unit file of a name
\* the earlier run had written, too
C17_StaleFilesReplaced ==
    /\ pc = "done"
    /\ [name |-> 1, run |-> Run] \in type_dir
    /\ Cardinality(type_dir) >= 3

\* ---------------------------------------------------- the index of REVERTs
RevertTokens == {"REVERT", "PUSH1", "0x05"}

\* source-map items without a source (file -1, given or inherited) and with one
RevertItems == {<<"">>, <<"1", "2", "0", "-", "-">>, <<"4", "", "-1", "", "-">>}

\* a node of the AST, as the interval tree of its file holds it
Node(kind, parent, function_called, start, end, depth) ==
    [kind |-> kind, parent |-> parent, function_called |-> function_called,
     start |-> start, end |-> end, ast_tree_depth |-> depth]

\* `revert Err(x, y);` at the bytes 0 to 3, the call at 1 to 3, and
\* `revert Err2();` at the bytes 3 to 6, the call at 4 to 6
RevertWithCall ==
    {Node("RevertStatement", "Block", None, 0, 3, 2),
     Node("FunctionCall", "RevertStatement", "ErrorDefinition", 1, 3, 3),
     Node("Identifier", "FunctionCall", None, 1, 2, 4),
     Node("Identifier", "FunctionCall", None, 2, 3, 4),
     Node("RevertStatement", "Block", None, 3, 6, 2),
     Node("FunctionCall", "RevertStatement", "ErrorDefinition", 4, 6, 3)}

\* `revert Err();` at the bytes 1 to 3, the call at 2 to 3
RevertStatementAtRange ==
    {Node("RevertStatement", "Block", None, 1, 3, 2),
     Node("FunctionCall", "RevertStatement", "ErrorDefinition", 2, 3, 3)}

\* `require(x, y);` the call at the bytes 1 to 3
RequireCall ==
    {Node("ExpressionStatement", "Block", None, 0, 3, 2),
     Node("FunctionCall", "ExpressionStatement", "FunctionDefinition", 1, 3, 3),
     Node("Identifier", "FunctionCall", None, 1, 2, 4),
     Node("Identifier", "FunctionCall", None, 2, 3, 4)}

\* the files of the model: the AST of the file the source map names, or no file
\* of that id
SourceFiles ==
    {[interval_tree |-> t, file_resolves |-> TRUE] :
        t \in {RevertWithCall, RevertStatementAtRange, RequireCall}}
    \cup {[interval_tree |-> {}, file_resolves |-> FALSE]}

RevInit ==
    /\ NoBuild /\ GeneratorConstructed /\ SanitizerConstructed
    /\ opcodes_spl \in SeqsUpTo(RevertTokens, MaxTokens)
    /\ source_map \in SeqsUpTo(RevertItems, MaxEntries)
    /\ dec_pc = "opcodes"
    /\ DecoderLocals
    /\ rv_i = 1
    /\ contracts_revert_index = {}
    /\ revert_nodes = <<>>
    /\ \E file \in SourceFiles :
          /\ interval_tree = file.interval_tree
          /\ file_resolves = file.file_resolves
    /\ LibraryIdle /\ TypeIdle /\ EmissionIdle

RevNext ==
    \/ DecNext
    \/ RevertIndexStep
    \/ RevertIndexReturn

\* lines 386-419 of generate_contract_template
RevSpec == RevInit /\ [][RevNext]_vars

\* the loop of lines 391-419 is at a REVERT whose record has the file_id -1
AtRevertWithoutSource ==
    /\ dec_pc = "done"
    /\ rv_i <= Len(pc_op_map)
    /\ pc_op_map[rv_i].op = "REVERT"
    /\ pc_op_map[rv_i].pc \in DOMAIN pc_map
    /\ pc_map[pc_op_map[rv_i].pc][3] = -1

\* C12: a REVERT whose source-map record has the file-id -1 is skipped: the step
\* of the loop at it raises nothing, leaves the revert index as it is and goes
\* on to the next instruction; no program counter of such a record is ever in
\* the index.
C12_RevertWithoutSourceSkipped ==
    /\ [][AtRevertWithoutSource =>
             /\ contracts_revert_index' = contracts_revert_index
             /\ dec_pc' = "done"
             /\ rv_i' = rv_i + 1]_vars
    /\ [](\A p \in contracts_revert_index : pc_map[p][3] # -1)

\* two REVERTs, the first without a source and passed over, the second indexed
C12_SkippedAndIndexed ==
    /\ dec_pc = "indexed"
    /\ Len(pc_op_map) >= 2
    /\ pc_op_map[1].op = "REVERT" /\ pc_op_map[1].pc \in DOMAIN pc_map
    /\ pc_map[pc_op_map[1].pc][3] = -1
    /\ contracts_revert_index = {pc_op_map[2].pc}

\* ------------------------------------- the library search and the deploy function
SmallSubsets(S) == {T \in SUBSET S : Cardinality(T) <= 2}

\* lines 541-568: the contract lies in unit 1; lib_ids are the placeholders of its
\* bytecode; the queue holds the unit of the contract
LibInit ==
    /\ \E n \in Units :
        /\ latest_graph \in Graphs(n)
        /\ fs_path = [u \in 1..n |-> u]
        /\ source_units = 1..n
        /\ lib_ids \in SmallSubsets(1..n)
        \* the libraries of the build that matter: some of the wanted ones
        /\ library_units \in SUBSET lib_ids
    /\ GeneratorConstructed /\ SanitizerConstructed /\ DecoderIdle
    /\ RevertIndexEmpty /\ TypeIdle /\ EmissionIdle
    /\ lib_pc = "search"
    /\ contract_unit = 1
    /\ libraries = {}
    /\ source_units_queue = <<contract_unit>>
    /\ contract_kind = None
    /\ contract_abstract = FALSE
    /\ deploy_body = None

LibNext ==
    \/ LibrarySearchStep
    \/ LibrarySearchEnd
    \/ GenerateDeployFunc

\* lines 567-591 of generate_contract_template
LibSpec == LibInit /\ [][LibNext]_vars

\* the same, a program that goes on as long as it has a next step
LibFairSpec == LibSpec /\ WF_vars(LibNext)

RECURSIVE ReachableFrom(_, _)
\* the units that can be reached from the units S through imports
ReachableFrom(S, k) ==
    IF k = 0 THEN S
    ELSE ReachableFrom(S \cup UNION {{e[1] : e \in in_edges(latest_graph, u)} : u \in S},
                       k - 1)

\* a placeholder of the bytecode names no library of a unit that the unit of the
\* contract reaches through imports
UnresolvablePlaceholder ==
    /\ lib_pc \in {"search", "aborted"}
    /\ \E id \in lib_ids :
          id \notin library_units \cap ReachableFrom({contract_unit}, NumUnits)

\* C11: with a placeholder that no reachable unit resolves, the library search
\* ends and the run aborts with "Not all libraries were found", for every import
\* graph (the behaviours in which the queue outgrows the bound of the model are
\* left aside).
C11_SearchEndsWithFatalError ==
    [](UnresolvablePlaceholder => <>(lib_pc = "aborted" \/ QueueAtBound))

\* C15: the deploy function has the working body, a call of cls._deploy, exactly
\* for a contract or library that is not abstract; an abstract one gets the body
\* that raises "Cannot deploy abstract contract", an interface the body that
\* raises "Cannot deploy interface"; generating it does not abort the run.
C15_DeployBody ==
    /\ [](lib_pc = "deployed" =>
            /\ (deploy_body = "return cls._deploy")
                  <=> (contract_kind \in {"contract", "library"} /\ ~contract_abstract)
            /\ (contract_kind \in {"contract", "library"} /\ contract_abstract)
                  => deploy_body = "raise Exception(\"Cannot deploy abstract contract\")"
            /\ contract_kind = "interface"
                  => deploy_body = "raise Exception(\"Cannot deploy interface\")")
    /\ [][lib_pc = "found" => lib_pc' = "deployed"]_vars

C15_LibraryDeployed ==
    /\ lib_pc = "deployed"
    /\ contract_kind = "library" /\ ~contract_abstract
    /\ deploy_body = "return cls._deploy"
    /\ libraries # {}

\* ------------------------------------------------- the type mapper on its own
ElementaryTypes ==
    {[tag |-> "Bool"], [tag |-> "Address"], [tag |-> "Bytes"],
     [tag |-> "UInt", bits_count |-> 256]}

ArrayLengths == {NoLength, 5, 32, 33, 40}

RECURSIVE ArrayTypes(_)
\* the arrays of at most `depth` dimensions
ArrayTypes(depth) ==
    IF depth = 0 THEN {}
    ELSE {[tag |-> "Array", base_type |-> b, length |-> n] :
            b \in ElementaryTypes \cup ArrayTypes(depth - 1), n \in ArrayLengths}

\* the types of the members of a struct
MemberTypes ==
    ElementaryTypes
    \cup {[tag |-> "Array", base_type |-> [tag |-> "UInt", bits_count |-> 256],
           length |-> NoLength],
          [tag |-> "Mapping", key_type |-> [tag |-> "Address"],
           value_type |-> [tag |-> "UInt", bits_count |-> 256]]}

\* the structs a public state variable can have: the compiler wants a getter to
\* return a value, so a member is no array and no mapping
StructTypes ==
    {[tag |-> "Struct", name |-> "from", parent |-> p, members |-> m] :
        p \in {"unit", "contract"},
        m \in {m \in SeqsUpTo(MemberTypes, MaxMembers) :
                 \E i \in 1..Len(m) : m[i].tag \notin {"Array", "Mapping"}}}

\* a struct, an array of structs, a mapping to structs, a mapping to arrays of structs
StructVariableTypes ==
    StructTypes
    \cup {[tag |-> "Array", base_type |-> t, length |-> NoLength] : t \in StructTypes}
    \cup {[tag |-> "Mapping", key_type |-> [tag |-> "Address"], value_type |-> t] :
            t \in StructTypes}
    \cup {[tag |-> "Mapping", key_type |-> [tag |-> "UInt", bits_count |-> 256],
           value_type |-> [tag |-> "Array", base_type |-> t, length |-> 5]] :
            t \in {t \in StructTypes : Len(t.members) = 1}}

\* the key types of the mappings
KeyTypes == {[tag |-> "Address"], [tag |-> "UInt", bits_count |-> 256]}

RECURSIVE ContainerTypes(_)
\* arrays and mappings nested in each other, of at most `depth` layers
ContainerTypes(depth) ==
    IF depth = 0 THEN {}
    ELSE LET inner == ElementaryTypes \cup ContainerTypes(depth - 1) IN
         {[tag |-> "Array", base_type |-> b, length |-> NoLength] : b \in inner}
         \cup {[tag |-> "Mapping", key_type |-> k, value_type |-> b] : k \in KeyTypes, b \in inner}

TypeInit ==
    /\ NoBuild /\ GeneratorConstructed /\ SanitizerConstructed /\ DecoderIdle
    /\ RevertIndexEmpty /\ LibraryIdle /\ EmissionIdle
    /\ type_expr \in ElementaryTypes \cup ArrayTypes(MaxDepth) \cup StructVariableTypes
                     \cup ContainerTypes(MaxDepth)
    /\ type_pc = "start"
    /\ return_types = FALSE
    /\ parsed_type = None
    /\ returns_str = None
    /\ generated_params = <<>>
    /\ param_names = <<>>

TypeNext ==
    \/ ParseTypeAndImport
    \/ GenerateGetter

\* the type of a declaration, mapped as a parameter or return type, or as the
\* type of a public state variable
TypeSpec == TypeInit /\ [][TypeNext]_vars

\* C13: an array without a length is mapped to List[E], one of a length n <= 32
\* to List<n>[E], one of a length n > 32 to Annotated[List[E], Length(n)], where
\* E is the mapping of the element type in the same context; array(uint256, 40)
\* gives Annotated[List[uint256], Length(40)] and array(bool, 5) gives List5[bool].
C13_ArrayByLength ==
    (type_pc = "parsed" /\ type_expr.tag = "Array") =>
        LET E == parse_type_and_import(type_expr.base_type, return_types)
            n == type_expr.length
        IN  /\ n = NoLength => parsed_type = "List[" \o E \o "]"
            /\ (n # NoLength /\ n <= 32) => parsed_type = "List" \o ToString(n) \o "[" \o E \o "]"
            /\ n > 32 =>
                  parsed_type = "Annotated[List[" \o E \o "], Length(" \o ToString(n) \o ")]"
            /\ type_expr = [tag |-> "Array", base_type |-> [tag |-> "UInt", bits_count |-> 256],
                            length |-> 40]
                  => parsed_type = "Annotated[List[uint256], Length(40)]"
            /\ type_expr = [tag |-> "Array", base_type |-> [tag |-> "Bool"], length |-> 5]
                  => parsed_type = "List5[bool]"

\* an array of arrays of exactly 32 elements has been mapped
C13_LengthThirtyTwo ==
    /\ type_pc = "parsed"
    /\ type_expr.tag = "Array" /\ type_expr.length = 32
    /\ type_expr.base_type.tag = "Array"
    /\ parsed_type = "List32[List[bool]]"

RECURSIVE Innermost(_)
\* the type under the array and mapping layers of the type of a state variable
Innermost(t) ==
    CASE t.tag = "Array" -> Innermost(t.base_type)
      [] t.tag = "Mapping" -> Innermost(t.value_type)
      [] OTHER -> t

\* the model's state is the getter of a state variable whose innermost type is a
\* struct
StructGetter == type_pc = "getter" /\ Innermost(type_expr).tag = "Struct"

NoContainerMember(struct) ==
    \A i \in 1..Len(struct.members) : struct.members[i].tag \notin {"Array", "Mapping"}

\* C14 as stated: the getter returns the struct when no member is an array or a
\* mapping, and else a Tuple[...] of the members that are neither.
C14_StructOrTuple ==
    StructGetter =>
        LET struct == Innermost(type_expr) IN
        IF NoContainerMember(struct)
        THEN returns_str = StructName(struct)
        ELSE returns_str = "Tuple[" \o join(", ", MappedMembers(struct.members)) \o "]"

\* C14 amended: the getter returns the struct when no member is an array or a
\* mapping; else it returns the members that are neither, in the order of their
\* declaration: as a Tuple[...] when they are two or more, as the one type, and
\* no tuple, when there is one.
C14_StructOrMembers ==
    StructGetter =>
        LET struct == Innermost(type_expr)
            kept == MappedMembers(struct.members)
        IN  IF NoContainerMember(struct)
            THEN returns_str = StructName(struct)
            ELSE /\ Len(kept) >= 2 => returns_str = "Tuple[" \o join(", ", kept) \o "]"
                 /\ Len(kept) = 1 => returns_str = kept[1]
                 /\ Len(kept) >= 1

\* the getter of a mapping to structs with an array between two scalar members
C14_PartialStruct ==
    /\ StructGetter
    /\ type_expr.tag = "Mapping"
    /\ Len(Innermost(type_expr).members) = 3
    /\ returns_str = "Tuple[bool, uint256]"

\* ------------------------------------------------------- one write per unit
\* C21: in one run every source unit is generated and written at most once, for
\* every import graph and every mapping of unit names to paths, so that
\* write_source_unit_to_file (line 1324) never finds the file of the unit
\* written by this run and never appends to it.
C21_UnitWrittenOnce ==
    \A i, j \in 1..Len(emitted) : emitted[i].path = emitted[j].path => i = j

\* ------------------------------------------- the sanitizer: dunder names
\* C22: in every scope other than the global one sanitize_name never returns a
\* dunder-style identifier (two leading underscores, exactly two trailing ones).
C22_NoDunderInScopes ==
    \A d \in Decls : d.kind # "global" => \A name \in returned[d] : ~IsDunder(name)

\* ------------------------------------ the sanitizer: the number of underscores
\* the fixed reserved table of a scope kind (lines 1648-1735)
reserved_of(kind) ==
    CASE kind = "global" -> global_reserved
      [] kind = "contract" -> contract_reserved
      [] kind = "function" -> function_reserved
      [] kind = "struct" -> struct_reserved
      [] kind = "event" -> event_reserved
      [] kind = "error" -> error_reserved
      [] kind = "enum" -> enum_reserved

RECURSIVE Underscores(_)
Underscores(k) == IF k = 0 THEN "" ELSE Underscores(k - 1) \o "_"

Candidate(d, k) == d.name \o Underscores(k)

\* the four tests of the claim
Collides(d, name) ==
    \/ name \in keywords
    \/ name \in global_reserved
    \/ name \in reserved_of(d.kind)
    \/ name \in Values(renames_of(d))

\* the scopes whose check tests for dunder-style names
DunderScopes == {"contract", "struct", "event", "error", "enum"}

CollidesOrDunder(d, name) ==
    Collides(d, name) \/ (d.kind \in DunderScopes /\ IsDunder(name))

\* every underscore has a reason: a call made before, or one of the fixed names
SuffixLengths == 0..(MaxCalls + 3)

\* the declarations a table of the scope kind `kind` holds
StoredIn(table, kind) == UNION {DOMAIN table[p] : p \in ParentsOf(kind)}

\* the declarations stored by this step
NewlySanitized ==
    (DOMAIN global_renames' \ DOMAIN global_renames)
    \cup (StoredIn(contract_renames', "contract") \ StoredIn(contract_renames, "contract"))
    \cup (StoredIn(function_renames', "function") \ StoredIn(function_renames, "function"))
    \cup (StoredIn(struct_renames', "struct") \ StoredIn(struct_renames, "struct"))
    \cup (StoredIn(event_renames', "event") \ StoredIn(event_renames, "event"))
    \cup (StoredIn(error_renames', "error") \ StoredIn(error_renames, "error"))
    \cup (StoredIn(enum_renames', "enum") \ StoredIn(enum_renames, "enum"))

\* C24 as stated: the identifier stored for a declaration not yet in the table of
\* its scope is the name with the smallest number of trailing underscores that
\* is no keyword, no reserved global identifier, not in the reserved table of
\* the scope and not yet chosen in the scope.
C24_SmallestSuffix ==
    [][\A d \in NewlySanitized :
          \E k \in SuffixLengths :
              /\ (renames_of(d))'[d] = Candidate(d, k)
              /\ ~Collides(d, Candidate(d, k))
              /\ \A j \in 0..(k - 1) : Collides(d, Candidate(d, j))]_vars

\* C24 amended: as C24, and in the scope of a contract, struct, event, error or
\* enum the identifier is, in addition, no dunder-style name.
C24_SmallestSuffixNoDunder ==
    [][\A d \in NewlySanitized :
          \E k \in SuffixLengths :
              /\ (renames_of(d))'[d] = Candidate(d, k)
              /\ ~CollidesOrDunder(d, Candidate(d, k))
              /\ \A j \in 0..(k - 1) : CollidesOrDunder(d, Candidate(d, j))]_vars

\* __init__ got one underscore in a contract, and from got two in a function
C24_UnderscoresAdded ==
    /\ \E d \in Decls : d.kind = "contract" /\ d.name = "__init__"
                        /\ returned[d] = {"__init___"}
    /\ \E d \in Decls : d.kind = "function" /\ d.name = "from"
                        /\ returned[d] = {"from__"}

\* ------------------------------------------- the reset between source units
\* a TypeGenerator that is about to generate its first source unit
UnitInit ==
    /\ NoBuild /\ GeneratorConstructed /\ SanitizerConstructed /\ DecoderIdle
    /\ RevertIndexEmpty /\ LibraryIdle /\ TypeIdle
    /\ em_pc = "ready"
    /\ UnitAccumulatorsConstructed
    /\ unit_names = {}
    /\ unit_files = {}
    /\ RecordIdle
    /\ FunctionIdle

UnitNext ==
    \/ \E path \in UnitPaths : BeginUnit(path)
    \/ \E d \in EmittedDecls : EmitDeclaration(d)
    \/ \E d \in EmittedDecls, kind \in ImportKinds : ImportDeclaration(d, kind)
    \/ AddPythonImport
    \/ WriteUnit
    \/ CleanupUnit

UnitSpec == UnitInit /\ [][UnitNext]_vars

AllImports(imp) ==
    imp.struct_imports \cup imp.enum_imports \cup imp.contract_imports
        \cup imp.python_imports

\* C23: when the emission of a source unit starts, the global rename table, the
\* four import sets and the text accumulator are empty, so that what is written
\* for a unit was added while that unit was generated; the reset between two
\* units changes no rename table of another scope and no index.
C23_UnitStartsClean ==
    /\ [](em_pc = "ready" =>
             /\ global_renames = <<>>
             /\ AllImports(source_unit_imports) = {}
             /\ source_unit_types = <<>>)
    /\ [](\A i \in 1..Len(written_units) :
             /\ \A j \in 1..Len(written_units[i].types) :
                   written_units[i].types[j].unit = written_units[i].unit
             /\ \A j \in 1..Len(written_units[i].imports) :
                   written_units[i].imports[j].unit = written_units[i].unit)
    /\ [][em_pc = "written" => UNCHANGED <<scopedRenames, Indices>>]_vars

\* a second unit was written after a first one that had text, imports and names
\* of both scopes, and the reset after it is done
C23_SecondUnitWritten ==
    /\ em_pc = "ready"
    /\ Len(written_units) = 2
    /\ Len(written_units[1].imports) = 2
    /\ Len(written_units[2].imports) = 1
    /\ \E p \in ParentsOf("contract") : contract_renames[p] # <<>>
    /\ contracts_index # <<>>

\* ------------------------------------------------ the file of a source unit
\* the characters of the unit names of the model
NameChars == {"a", "1", "-", "_", "/"}

\* str.isalnum
isalnum(ch) == ch \in {"a", "1"}

RECURSIVE filter_path(_)
\* lines 62-64: the characters that are alphanumeric, "/" or "_"
filter_path(s) ==
    IF s = "" THEN ""
    ELSE LET ch == SubSeq(s, 1, 1) IN
         (IF isalnum(ch) \/ ch = "/" \/ ch = "_" THEN ch ELSE "")
             \o filter_path(SubSeq(s, 2, Len(s)))

RECURSIVE split(_, _)
\* str.split(sep) for a separator of one character
split(s, sep) ==
    IF \A i \in 1..Len(s) : SubSeq(s, i, i) # sep THEN <<s>>
    ELSE LET i == CHOOSE i \in 1..Len(s) :
                     SubSeq(s, i, i) = sep /\ \A j \in 1..(i - 1) : SubSeq(s, j, j) # sep
         IN  <<SubSeq(s, 1, i - 1)>> \o split(SubSeq(s, i + 1, Len(s)), sep)

\* line 66: a segment that starts with a digit gets a leading underscore
escape_segment(segment) ==
    IF \E digit \in {"1"} : startswith(segment, digit) THEN "_" \o segment ELSE segment

\* _make_path_alphanum, lines 61-68
make_path_alphanum(source_unit_name) ==
    LET segments == split(filter_path(source_unit_name), "/")
    IN  join("/", [i \in 1..Len(segments) |-> escape_segment(segments[i])])

\* lines 1319-1320: the file of the source unit under __pytypes_dir
unit_path(contract_name) ==
    make_path_alphanum(SubSeq(contract_name, 1, Len(contract_name) - 3)) \o ".py"

\* lines 1317-1329: the unit is written to its file, or appended to it
WriteSourceUnitToFile(contract_name) ==
    /\ contract_name \in unit_names
    /\ \A f \in unit_files : f.unit # contract_name
    /\ unit_files' = unit_files \cup {[path |-> unit_path(contract_name),
                                       unit |-> contract_name]}
    /\ UNCHANGED <<unit_names, schedVars, sanVars, decVars, revVars, libVars, typeVars,
                   unitVars, recordVars, functionVars>>

\* the names of MaxNameLen characters at most, before the suffix
RECURSIVE NameBodies(_)
NameBodies(n) ==
    IF n = 0 THEN {""}
    ELSE LET shorter == NameBodies(n - 1)
         IN  shorter \cup {b \o ch : b \in shorter, ch \in NameChars}

\* a source unit name is a path of non-empty segments that ends with .sol
SourceUnitNames ==
    {b \o ".sol" : b \in {b \in NameBodies(MaxNameLen) :
                             \A i \in 1..Len(split(b, "/")) : split(b, "/")[i] # ""}}

\* a build of two source units
PathInit ==
    /\ NoBuild /\ GeneratorConstructed /\ SanitizerConstructed /\ DecoderIdle
    /\ RevertIndexEmpty /\ LibraryIdle /\ TypeIdle
    /\ em_pc = "idle"
    /\ UnitAccumulatorsConstructed
    /\ unit_names \in {{a, b} : a, b \in SourceUnitNames} \ {{a} : a \in SourceUnitNames}
    /\ unit_files = {}
    /\ RecordIdle
    /\ FunctionIdle

PathNext == \E contract_name \in SourceUnitNames : WriteSourceUnitToFile(contract_name)

PathSpec == PathInit /\ [][PathNext]_vars

\* C25: two source units of different names are written to different files.
C25_DistinctFiles ==
    \A f, g \in unit_files : f.path = g.path => f.unit = g.unit

\* ------------------------------------------- the parameters of a getter
RECURSIVE Layers(_)
\* the array and mapping layers of a type, from the outside in
Layers(t) ==
    CASE t.tag = "Array" -> <<t>> \o Layers(t.base_type)
      [] t.tag = "Mapping" -> <<t>> \o Layers(t.value_type)
      [] OTHER -> <<>>

\* the name of the parameter of the layer at `depth`, and the parameter
LayerName(layer, depth) ==
    (IF layer.tag = "Array" THEN "index" ELSE "key") \o ToString(depth)

LayerParam(layer, depth) ==
    LayerName(layer, depth) \o ": "
        \o (IF layer.tag = "Array" THEN "int"
            ELSE parse_type_and_import(layer.key_type, FALSE))

ParameterDecl(parameter) ==
    [name |-> parameter.name, kind |-> record_kind, parent |-> record_kind \o "1", nr |-> 1]

\* lines 739-742: the indexed parameters of which the log holds the hash
IsHashed(parameter) ==
    /\ record_kind = "event"
    /\ parameter.indexed
    /\ parameter.type.tag \in {"Array", "Struct", "Bytes", "String"}

\* one pass of the loop over the parameters: lines 675-690 for an error, lines
\* 732-758 for an event
RecordParameterStep ==
    /\ record_pc = "parameters"
    /\ Len(parameters) < Len(record_params)
    /\ LET parameter == record_params[Len(parameters) + 1]
           d == ParameterDecl(parameter)
           named == parameter.name # ""
           parameter_name ==
               (IF named THEN get_name(d) ELSE "param" \o ToString(unnamed_params_index))
                   \o (IF IsHashed(parameter) THEN "_hash" ELSE "")
           parameter_type ==
               IF IsHashed(parameter) THEN "bytes"
               ELSE parse_type_and_import(parameter.type, TRUE)
       IN  /\ unnamed_params_index' = unnamed_params_index + (IF named THEN 0 ELSE 1)
           /\ parameters' = Append(parameters, <<parameter_name, parameter_type, parameter.name>>)
           /\ event_renames' = IF named THEN Stored(event_renames, "event", d, get_name(d))
                               ELSE event_renames
           /\ error_renames' = IF named THEN Stored(error_renames, "error", d, get_name(d))
                               ELSE error_renames
           /\ calls' = calls + (IF named THEN 1 ELSE 0)
    /\ UNCHANGED <<global_renames, contract_renames, function_renames, struct_renames,
                   enum_renames, returned>>
    /\ UNCHANGED <<record_pc, record_kind, record_params, record_fields>>
    /\ UNCHANGED <<schedVars, decVars, revVars, libVars, typeVars, unitVars, pathVars,
                   functionVars>>

\* lines 692-717 and 760-785: the dataclass, with one field for each parameter
RecordEmit ==
    /\ record_pc = "parameters"
    /\ Len(parameters) = Len(record_params)
    /\ record_fields' = [i \in 1..Len(parameters) |-> parameters[i][1]]
    /\ record_pc' = "emitted"
    /\ UNCHANGED <<record_kind, record_params, unnamed_params_index, parameters>>
    /\ UNCHANGED <<schedVars, sanVars, decVars, revVars, libVars, typeVars, unitVars,
                   pathVars, functionVars>>

\* the names of the parameters: none, or an identifier
ParameterNames == {"", "a", "a_hash", "from", "param1", "param2"}

ParameterTypes == {[tag |-> "UInt", bits_count |-> 256], [tag |-> "Bytes"]}

\* the parameter lists the compiler accepts: no two parameters have one name, and
\* only a parameter of an event is indexed
ParameterLists(kind) ==
    {l \in SeqsUpTo([name : ParameterNames, type : ParameterTypes, indexed : BOOLEAN],
                    MaxParams) :
        /\ \A i, j \in 1..Len(l) : (l[i].name = l[j].name /\ l[i].name # "") => i = j
        /\ kind = "error" => \A i \in 1..Len(l) : ~l[i].indexed}

RecordInit ==
    /\ NoBuild /\ GeneratorConstructed /\ SanitizerConstructed /\ DecoderIdle
    /\ RevertIndexEmpty /\ LibraryIdle /\ TypeIdle
    /\ em_pc = "idle" /\ UnitAccumulatorsConstructed /\ unit_names = {} /\ unit_files = {}
    /\ FunctionIdle
    /\ record_pc = "parameters"
    /\ record_kind \in {"event", "error"}
    /\ record_params \in ParameterLists(record_kind)
    /\ unnamed_params_index = 1
    /\ parameters = <<>>
    /\ record_fields = <<>>

RecordNext == RecordParameterStep \/ RecordEmit

RecordSpec == RecordInit /\ [][RecordNext]_vars

\* C27: the fields of the record emitted for an event or an error have pairwise
\* distinct names.
C27_FieldNamesDistinct ==
    \A i, j \in 1..Len(record_fields) : record_fields[i] = record_fields[j] => i = j

\* ------------------------------------------- the node of a REVERT instruction
\* C28: for a REVERT that has a source, the node taken is, of the nodes whose
\* range the range of the instruction envelops, one of the smallest tree depth,
\* and a program counter is in the revert index only if the node taken for it is
\* a function call whose parent is a revert statement.
C28_ShallowestNodeDecides ==
    /\ \A i \in 1..Len(revert_nodes) :
          LET r == revert_nodes[i]
              nodes == envelop(interval_tree, r.start, r.end)
          IN  IF r.found \in {"KeyError", "no_node"}
              THEN ~file_resolves \/ nodes = {}
              ELSE /\ r.node \in nodes
                   /\ \A m \in nodes : r.node.ast_tree_depth <= m.ast_tree_depth
    /\ \A p \in contracts_revert_index :
          \E i \in 1..Len(revert_nodes) :
              /\ revert_nodes[i].pc = p
              /\ revert_nodes[i].node.kind = "FunctionCall"
              /\ revert_nodes[i].node.parent = "RevertStatement"

\* the call of `revert Err(x, y)` was taken before its two arguments and the
\* program counter indexed; the loop has ended
C28_CallIndexed ==
    /\ dec_pc = "indexed"
    /\ interval_tree = RevertWithCall
    /\ contracts_revert_index # {}
    /\ Len(revert_nodes) >= 1

\* ------------------------------------- the request types of a function
\* the request types, in the order of the stubs
RequestTypes == <<"call", "estimate", "access_list", "tx">>

\* lines 1186-1189, with PURE alone
is_pure_only(fn) == fn.state_mutability = "pure"

\* lines 1186-1189
is_pure_or_view(fn) == fn.state_mutability \in {"pure", "view"}

\* lines 1115-1120
is_view_or_pure(declaration) ==
    \/ declaration.kind = "VariableDeclaration"
    \/ declaration.state_mutability \in {"view", "pure"}

\* lines 1177-1182 (1052-1057 for a getter)
func_returns_str(returns) ==
    IF Len(returns) = 0 THEN None
    ELSE IF Len(returns) = 1 THEN returns[1]
    ELSE "Tuple[" \o join(", ", returns) \o "]"

\* the return type of the stub of a request type (lines 1191-1217, 1059-1078)
stub_returns(request_type, returns) ==
    CASE request_type = "call" -> returns
      [] request_type = "estimate" -> "int"
      [] request_type = "access_list" -> "Tuple[Dict[Address, List[int]], int]"
      [] request_type = "tx" -> "TransactionAbc[" \o returns \o "]"

\* the last argument of each call of generate_type_hint_stub_func:
\* lines 1191-1217 for a function, lines 1059-1078 for a getter
request_type_is_default(declaration, request_type) ==
    IF declaration.kind = "VariableDeclaration"
    THEN request_type = "call"
    ELSE CASE request_type = "call" -> is_pure_or_view(declaration)
           [] request_type = "tx" -> ~is_pure_or_view(declaration)
           [] OTHER -> FALSE

\* lines 1152-1168: the stub, by its parameters, the literal type of request_type,
\* the default written after it (none, or the request type) and its return type
generate_type_hint_stub_func(declaration, params, returns, request_type, is_default) ==
    [params |-> params,
     request_type |-> request_type,
     default |-> IF is_default THEN request_type ELSE None,
     returns |-> returns]

\* lines 1109-1126: the head of the implementation
generate_func_implementation(declaration, params, returns) ==
    [params |-> params,
     default |-> IF is_view_or_pure(declaration) THEN "call" ELSE "tx",
     returns |-> func_returns_str(returns)]

\* one call of generate_type_hint_stub_func of lines 1191-1217 or 1059-1078
GenerateTypeHintStubFunc ==
    /\ fn_pc = "stubs"
    /\ Len(overloads) < Len(RequestTypes)
    /\ LET request_type == RequestTypes[Len(overloads) + 1] IN
       overloads' =
          Append(overloads,
                 generate_type_hint_stub_func(
                     fn_decl, fn_params,
                     stub_returns(request_type, func_returns_str(fn_returns)),
                     request_type,
                     request_type_is_default(fn_decl, request_type)))
    /\ UNCHANGED <<fn_pc, fn_decl, fn_params, fn_returns, implementation, overloadVars>>
    /\ UNCHANGED <<schedVars, sanVars, decVars, revVars, libVars, typeVars, unitVars,
                   pathVars, recordVars>>

\* lines 1219-1225 and 1080-1085: the implementation, after the four stubs
GenerateFuncImplementation ==
    /\ fn_pc = "stubs"
    /\ Len(overloads) = Len(RequestTypes)
    /\ implementation' = <<generate_func_implementation(fn_decl, fn_params, fn_returns)>>
    /\ fn_pc' = "emitted"
    /\ UNCHANGED <<fn_decl, fn_params, fn_returns, overloads, overloadVars>>
    /\ UNCHANGED <<schedVars, sanVars, decVars, revVars, libVars, typeVars, unitVars,
                   pathVars, recordVars>>

StateMutabilities == {"pure", "view", "nonpayable", "payable"}

\* the functions and the public state variables
FunctionDecls ==
    {[kind |-> "FunctionDefinition", state_mutability |-> m] : m \in StateMutabilities}
    \cup {[kind |-> "VariableDeclaration", state_mutability |-> None]}

FunctionInit ==
    /\ NoBuild /\ GeneratorConstructed /\ SanitizerConstructed /\ DecoderIdle
    /\ RevertIndexEmpty /\ LibraryIdle /\ TypeIdle
    /\ em_pc = "idle" /\ UnitAccumulatorsConstructed /\ unit_names = {} /\ unit_files = {}
    /\ RecordIdle /\ OverloadIdle
    /\ fn_pc = "stubs"
    /\ fn_decl \in FunctionDecls
    /\ fn_params \in {<<>>} \cup SeqsUpTo({"a: int", "b: bool"}, MaxParams)
    /\ fn_returns \in {<<>>} \cup SeqsUpTo({"int", "bool"}, MaxParams)
    /\ overloads = <<>>
    /\ implementation = <<>>

FunctionNext == GenerateTypeHintStubFunc \/ GenerateFuncImplementation

FunctionSpec == FunctionInit /\ [][FunctionNext]_vars

\* the stubs that carry a default
Defaults == {i \in 1..Len(overloads) : overloads[i].default # None}

\* C29: of the four stubs of a function or getter emitted, one for each of call,
\* estimate, access_list and tx, exactly one carries a default; the default is
\* the request type of that stub and the default of the implementation: call for
\* a view or pure function and for a getter, tx for every other function.
C29_OneDefaultRequestType ==
    fn_pc = "emitted" =>
       /\ Len(overloads) = 4
       /\ {overloads[i].request_type : i \in 1..4} = {"call", "estimate", "access_list", "tx"}
       /\ Cardinality(Defaults) = 1
       /\ \A i \in Defaults :
             /\ overloads[i].default = overloads[i].request_type
             /\ overloads[i].default = implementation[1].default
       /\ implementation[1].default =
             IF \/ fn_decl.kind = "VariableDeclaration"
                \/ fn_decl.state_mutability \in {"view", "pure"}
             THEN "call" ELSE "tx"

\* a view function with two return values has been emitted
C29_ViewFunctionEmitted ==
    /\ fn_pc = "emitted"
    /\ fn_decl.kind = "FunctionDefinition"
    /\ fn_decl.state_mutability = "view"
    /\ Len(fn_returns) = 2
    /\ Len(implementation) = 1

\* ---------------------------------- functions that need overloads
\* the one source unit of the contracts
OverloadUnit == "u.sol"

\* canonical_name of the function fn of the contract c
canonical_name(c, fn) == "C" \o ToString(c) \o "." \o fn.name

RECURSIVE FunctionsFrom(_, _)
\* lines 1392-1396: the functions in the order of the loops, each with its contract
FunctionsFrom(contracts, c) ==
    IF c > Len(contracts) THEN <<>>
    ELSE [k \in 1..Len(contracts[c].functions) |->
             [contract |-> c, function |-> contracts[c].functions[k]]]
         \o FunctionsFrom(contracts, c + 1)

\* contract.child_contracts
child_contracts(contracts, c) ==
    {d \in 1..Len(contracts) : c \in contracts[d].base_contracts}

RECURSIVE ancestors(_, _)
\* the contracts c inherits from, directly or not
ancestors(contracts, c) ==
    contracts[c].base_contracts
    \cup UNION {ancestors(contracts, p) : p \in contracts[c].base_contracts}

RECURSIVE parents_checked(_, _)
\* lines 1375-1387: the contracts add_func_overload_if_match is called with by
\* traverse_funcs_in_parent_contracts(fn, c)
parents_checked(contracts, c) ==
    IF contracts[c].kind = "interface" THEN {}
    ELSE contracts[c].base_contracts
         \cup UNION {parents_checked(contracts, p) : p \in contracts[c].base_contracts}

RECURSIVE children_checked(_, _)
\* lines 1365-1372: the same for traverse_funcs_in_child_contracts(fn, c)
children_checked(contracts, c) ==
    child_contracts(contracts, c)
    \cup UNION {children_checked(contracts, d) : d \in child_contracts(contracts, c)}

\* lines 1339-1344: the functions of the contract c that match the function fn of
\* the contract at
matches(contracts, at, fn, c) ==
    {function \in {contracts[c].functions[k] : k \in 1..Len(contracts[c].functions)} :
        fn.name = function.name /\ <<at, fn>> # <<c, function>>}

\* lines 1346-1358: what add_func_overload_if_match(fn, c) adds
add_func_overload_if_match(contracts, at, fn, c) ==
    UNION {{OverloadUnit \o canonical_name(at, fn), OverloadUnit \o canonical_name(c, function)} :
              function \in matches(contracts, at, fn, c)}

\* lines 1395-1408: one function of the loops
TraverseFuncsStep ==
    /\ ov_pc = "traverse"
    /\ ov_i <= Len(FunctionsFrom(ov_contracts, 1))
    /\ LET at == FunctionsFrom(ov_contracts, 1)[ov_i].contract
           fn == FunctionsFrom(ov_contracts, 1)[ov_i].function
           checked == {at} \cup parents_checked(ov_contracts, at)
                           \cup children_checked(ov_contracts, at)
       IN  IF /\ ov_contracts[at].kind # "interface"
              /\ canonical_name(at, fn) \notin func_to_overload
              /\ fn.implemented
              /\ fn.visibility \in {"public", "external"}
           THEN /\ func_to_overload' =
                      func_to_overload
                      \cup UNION {add_func_overload_if_match(ov_contracts, at, fn, c) :
                                     c \in checked}
                /\ ov_checked' = ov_checked \cup {<<at, fn, c>> : c \in checked}
                /\ ov_matches' =
                      ov_matches
                      \cup UNION {{[contract |-> at, fn |-> fn, found_in |-> c,
                                    function |-> function] :
                                      function \in matches(ov_contracts, at, fn, c)} :
                                     c \in checked}
           ELSE UNCHANGED <<func_to_overload, ov_checked, ov_matches>>
    /\ ov_i' = ov_i + 1
    /\ UNCHANGED <<ov_pc, ov_contracts>>
    /\ UNCHANGED <<fn_pc, fn_decl, fn_params, fn_returns, overloads, implementation>>
    /\ UNCHANGED <<schedVars, sanVars, decVars, revVars, libVars, typeVars, unitVars,
                   pathVars, recordVars>>

\* the loops have ended
TraverseFuncsReturn ==
    /\ ov_pc = "traverse"
    /\ ov_i > Len(FunctionsFrom(ov_contracts, 1))
    /\ ov_pc' = "done"
    /\ UNCHANGED <<ov_contracts, ov_i, func_to_overload, ov_checked, ov_matches>>
    /\ UNCHANGED <<fn_pc, fn_decl, fn_params, fn_returns, overloads, implementation>>
    /\ UNCHANGED <<schedVars, sanVars, decVars, revVars, libVars, typeVars, unitVars,
                   pathVars, recordVars>>

\* a function by its name and selector
Function(name, selector, implemented) ==
    [name |-> name, selector |-> selector, implemented |-> implemented,
     visibility |-> "external"]

\* the functions of a contract of a kind: none, f(uint256), and for a contract
\* also f(uint256) with f(bool); those of an interface have no body
FunctionLists(kind) ==
    IF kind = "interface"
    THEN {<<>>, <<Function("f", 1, FALSE)>>}
    ELSE {<<>>, <<Function("f", 1, TRUE)>>,
          <<Function("f", 1, TRUE), Function("f", 2, TRUE)>>}

\* the declarations a contract may have after the contracts declared before it:
\* a contract inherits from contracts declared before it, an interface from
\* interfaces only
ContractDeclarations(contracts) ==
    UNION {[kind : {kind},
            base_contracts :
               {bases \in SUBSET (1..Len(contracts)) :
                   kind = "interface" => \A p \in bases : contracts[p].kind = "interface"},
            functions : FunctionLists(kind)] : kind \in {"contract", "interface"}}

RECURSIVE ContractLattices(_)
\* the units of n contracts
ContractLattices(n) ==
    IF n = 0 THEN {<<>>}
    ELSE UNION {{Append(contracts, c) : c \in ContractDeclarations(contracts)} :
                   contracts \in ContractLattices(n - 1)}

OverloadInit ==
    /\ NoBuild /\ GeneratorConstructed /\ SanitizerConstructed /\ DecoderIdle
    /\ RevertIndexEmpty /\ LibraryIdle /\ TypeIdle
    /\ em_pc = "idle" /\ UnitAccumulatorsConstructed /\ unit_names = {} /\ unit_files = {}
    /\ RecordIdle
    /\ fn_pc = "idle"
    /\ fn_decl = [kind |-> None, state_mutability |-> None]
    /\ fn_params = <<>>
    /\ fn_returns = <<>>
    /\ overloads = <<>>
    /\ implementation = <<>>
    /\ ov_pc = "traverse"
    /\ ov_contracts \in ContractLattices(MaxContracts)
    /\ ov_i = 1
    /\ func_to_overload = {}
    /\ ov_checked = {}
    /\ ov_matches = {}

OverloadNext == TraverseFuncsStep \/ TraverseFuncsReturn

OverloadSpec == OverloadInit /\ [][OverloadNext]_vars

\* the contracts that inherit from c, directly or not
descendants(contracts, c) ==
    {d \in 1..Len(contracts) : c \in ancestors(contracts, d)}

\* the implemented, publicly visible functions of the contracts that are no
\* interface, each with its contract
FunctionsToCheck ==
    {FunctionsFrom(ov_contracts, 1)[i] : i \in 1..Len(FunctionsFrom(ov_contracts, 1))}

\* C30: when the traversal has ended, each function checked has been compared
\* with the functions of every ancestor of its contract that is no interface and
\* of every descendant, and with those of no ancestor that is an interface: no
\* match was found in an interface.
C30_InterfaceAncestorsExcluded ==
    /\ ov_pc = "done" =>
          \A w \in FunctionsToCheck :
             (/\ ov_contracts[w.contract].kind # "interface"
              /\ w.function.implemented
              /\ w.function.visibility \in {"public", "external"}) =>
                /\ \A a \in ancestors(ov_contracts, w.contract) :
                      <<w.contract, w.function, a>> \in ov_checked
                         <=> ov_contracts[a].kind # "interface"
                /\ \A d \in descendants(ov_contracts, w.contract) :
                      <<w.contract, w.function, d>> \in ov_checked
    /\ \A m \in ov_matches : ov_contracts[m.found_in].kind # "interface"

====
